---- MODULE Spec2Model ----
(***************************************************************************)
(* A model of wiki_export: WikiParser (wikiparser/wikiparser.py), the      *)
(* helper util.striplines (util.py) and OffsetsBuilder                     *)
(* (offsetsbuilder/offsetsbuilder.py).                                     *)
(*                                                                         *)
(* A Python str is a sequence of characters; a character is a TLA+ string  *)
(* (one letter for ASCII characters, a name such as "NL" or "BOM" for the  *)
(* others).  Offsets are Python's: 0-based.                                *)
(***************************************************************************)
EXTENDS Integers, Sequences, FiniteSets, TLC

(***************************************************************************)
(* Python values                                                           *)
(***************************************************************************)

\* Python's None where a str may stand: no str holds the character "None".
None == <<"None">>

\* Python's None where a list of str may stand: no list holds None.
NoneList == <<None>>

NL == "NL"
SP == " "

\* s[a:b] for 0 <= a, b (b clipped to len(s))
Slice(s, a, b) ==
    LET e == IF b > Len(s) THEN Len(s) ELSE b
    IN  IF a >= e THEN <<>> ELSE SubSeq(s, a + 1, e)

\* s[a:]
SliceFrom(s, a) == Slice(s, a, Len(s))

\* s[i] raises IndexError unless -len(s) <= i < len(s)
IndexOK(s, i) == -Len(s) <= i /\ i < Len(s)

\* s[i], negative i counting from the end
At(s, i) == IF i >= 0 THEN s[i + 1] ELSE s[Len(s) + i + 1]

\* s.startswith(prefix)
StartsWith(s, prefix) ==
    Len(prefix) <= Len(s) /\ SubSeq(s, 1, Len(prefix)) = prefix

\* s.startswith(prefix, p): prefix stands in s at offset p
StartsWithAt(s, prefix, p) ==
    p + Len(prefix) <= Len(s) /\ SubSeq(s, p + 1, p + Len(prefix)) = prefix

\* the elements of a list
Range(s) == {s[i] : i \in 1..Len(s)}

RECURSIVE Concat(_)
\* ''.join(ss)
Concat(ss) == IF ss = <<>> THEN <<>> ELSE Head(ss) \o Concat(Tail(ss))

(***************************************************************************)
(* Configuration (config.ini, read at import time)                         *)
(***************************************************************************)

\* [json format] opening / closing page keyword output
PagekwOutOpen == <<"P", "A", "G", "E">>
PagekwOutClose == <<"E", "G", "A", "P">>

\* [json format] page allowed: [0-9 and Arabic-Indic digits]+[rv]?
AsciiDigits == {"0", "1", "2", "3", "4", "5", "6", "7", "8", "9"}
ArabicIndicDigits ==
    {"AR0", "AR1", "AR2", "AR3", "AR4", "AR5", "AR6", "AR7", "AR8", "AR9"}
PageDigits == AsciiDigits \cup ArabicIndicDigits
PageSuffix == {"r", "v"}

RECURSIVE DigitsEnd(_, _)
\* offset just after the longest run of digits of s that starts at offset p
DigitsEnd(s, p) ==
    IF p < Len(s) /\ s[p + 1] \in PageDigits THEN DigitsEnd(s, p + 1) ELSE p

\* offset just after the match of the page-allowed pattern at offset p,
\* -1 when it does not match there (digits, suffix and what may follow them
\* are disjoint, so the greedy match is the only one)
PageAllowedEnd(s, p) ==
    LET d == DigitsEnd(s, p)
    IN  IF d = p THEN -1
        ELSE IF d < Len(s) /\ s[d + 1] \in PageSuffix THEN d + 1 ELSE d

RECURSIVE SpacesEnd(_, _)
\* offset just after the longest run of spaces of s that starts at offset p
SpacesEnd(s, p) ==
    IF p < Len(s) /\ s[p + 1] = SP THEN SpacesEnd(s, p + 1) ELSE p

(***************************************************************************)
(* OffsetsBuilder                                                          *)
(***************************************************************************)

NoMatch == [start |-> -1, end |-> -1, info |-> None]

\* the match of r'%s *' % _page_pattern that starts at offset p of text
PagePatternAt(text, p) ==
    IF ~StartsWithAt(text, PagekwOutOpen, p) THEN NoMatch
    ELSE LET a == p + Len(PagekwOutOpen)
             b == PageAllowedEnd(text, a)
         IN  IF b = -1 \/ ~StartsWithAt(text, PagekwOutClose, b) THEN NoMatch
             ELSE [start |-> p,
                   end   |-> SpacesEnd(text, b + Len(PagekwOutClose)),
                   info  |-> Slice(text, a, b)]

RECURSIVE FindIterFrom(_, _)
\* the matches at offset p or later, left to right, none overlapping another
FindIterFrom(text, p) ==
    LET starts == {q \in p..(Len(text) - 1) : PagePatternAt(text, q) # NoMatch}
    IN  IF starts = {} THEN <<>>
        ELSE LET q == CHOOSE q \in starts : \A r \in starts : q <= r
                 m == PagePatternAt(text, q)
             IN  <<m>> \o FindIterFrom(text, m.end)

\* re.finditer(r'%s *' % _page_pattern, text): the matches, left to right
FindIter(text) == FindIterFrom(text, 0)


VARIABLES
    \* OffsetsBuilder
    data,       \* self._data: the chunks, [section, text]
    alltext,    \* self.alltext
    sections,   \* self.sections: [name, start, end]
    pages,      \* self.pages: [name, start, end]
    frame,      \* the local variables of the running method
    output,     \* what build() returned (before json.dumps)
    earlier,    \* what the call of build() before this one returned
    \* WikiParser
    rawtexts,   \* self.rawtexts
    title,      \* self.title
    parser,     \* the local variables of the running parse()
    warnings,   \* what was printed to stderr, in order
    result,     \* what parse() returned
    firstpass,  \* what an earlier run of _cleaner returned and printed
    \* ExportHandler and the script wiki_to_json
    handler,    \* the wiki answering the requests, the locals of export()
    files,      \* the files of the output directory: name -> content
    fetch,      \* the pages the wiki holds of a title, the locals of
                \* _export_title
    \* TSVConverter
    tsv,        \* self.content and the locals of convert()
    \* both
    pc,         \* where the running call stands
    exc         \* the exception the call raised, NoExc if none

vars == <<data, alltext, sections, pages, frame, output, earlier,
          rawtexts, title, parser, warnings, result, firstpass,
          handler, files, fetch, tsv, pc, exc>>

obVars == <<data, alltext, sections, pages, frame, output, earlier>>
wpVars == <<rawtexts, title, parser, warnings, result>>
ehVars == <<handler, files>>
ftVars == <<fetch, tsv>>

NoExc == [type |-> "none"]
IndexError == [type |-> "IndexError"]

NoOutput == [text |-> None, sections |-> <<>>, pages |-> <<>>]

\* parse() has not returned
NoResult == [returned |-> FALSE, chunks |-> <<>>]

\* the locals of _calculate before line 185 has run
NoFrame ==
    [ci |-> 0, ms |-> <<>>, k |-> 0, pivot |-> 0, is_page_start |-> FALSE,
     current_page_info |-> None, page_info |-> None, remove_gaps |-> 0,
     my_last_end |-> 0, current |-> 0]

\* bool(chunk['section']): neither None nor ''
Truthy(s) == s # None /\ s # <<>>

\* build() is called: _calculate starts, lines 185-189
CalculateBegin ==
    /\ pc = "constructed"
    /\ frame' = [ci |-> 1, ms |-> <<>>, k |-> 0, pivot |-> 0,
                 is_page_start |-> FALSE, current_page_info |-> None,
                 page_info |-> None, remove_gaps |-> 0, my_last_end |-> 0,
                 current |-> 0]
    /\ pc' = "calc_chunk"
    /\ UNCHANGED <<data, alltext, sections, pages, output, exc>>
    /\ UNCHANGED <<wpVars, firstpass, ehVars, earlier, ftVars>>

\* ChunkBegin without the reset of remove_gaps of line 194
ChunkBeginKeepsGaps ==
    /\ pc = "calc_chunk"
    /\ frame.ci <= Len(data)
    /\ frame' = [frame EXCEPT !.current = 0,
                              !.ms = FindIter(data[frame.ci].text)]
    /\ pc' = "calc_match"
    /\ UNCHANGED <<data, alltext, sections, pages, output, exc>>
    /\ UNCHANGED <<wpVars, firstpass, ehVars, earlier, ftVars>>

\* for chunk in self._data: lines 191-196, up to the first match
ChunkBegin ==
    /\ pc = "calc_chunk"
    /\ frame.ci <= Len(data)
    /\ frame' = [frame EXCEPT !.current = 0, !.remove_gaps = 0,
                              !.ms = FindIter(data[frame.ci].text)]
    /\ pc' = "calc_match"
    /\ UNCHANGED <<data, alltext, sections, pages, output, exc>>
    /\ UNCHANGED <<wpVars, firstpass, ehVars, earlier, ftVars>>

\* MatchBody, naming the closed page after the marker that closes it
MatchBodyNamesNext(m) ==
    LET text == data[frame.ci].text
        pagekw_start == m.start
        pagekw_end == m.end
        current_end == frame.pivot + pagekw_start - frame.remove_gaps - 1
    IN  /\ pages' = IF frame.is_page_start
                    THEN Append(pages, [name  |-> m.info,
                                        start |-> frame.my_last_end,
                                        end   |-> current_end])
                    ELSE pages
        /\ alltext' = alltext \o Slice(text, frame.current, pagekw_start)
        /\ frame' = [frame EXCEPT
                       !.my_last_end = IF frame.is_page_start THEN current_end
                                       ELSE @,
                       !.remove_gaps = @ + (pagekw_end - pagekw_start),
                       !.is_page_start = TRUE,
                       !.page_info = m.info,
                       !.current_page_info = m.info,
                       !.current = pagekw_end,
                       !.ms = Tail(@)]

\* the body of the loop over the matches, lines 198-217, for one match m
MatchBody(m) ==
    LET text == data[frame.ci].text
        pagekw_start == m.start
        pagekw_end == m.end
        current_end == frame.pivot + pagekw_start - frame.remove_gaps - 1
    IN  /\ pages' = IF frame.is_page_start
                    THEN Append(pages, [name  |-> frame.current_page_info,
                                        start |-> frame.my_last_end,
                                        end   |-> current_end])
                    ELSE pages
        /\ alltext' = alltext \o Slice(text, frame.current, pagekw_start)
        /\ frame' = [frame EXCEPT
                       !.my_last_end = IF frame.is_page_start THEN current_end
                                       ELSE @,
                       !.remove_gaps = @ + (pagekw_end - pagekw_start),
                       !.is_page_start = TRUE,
                       !.page_info = m.info,
                       !.current_page_info = m.info,
                       !.current = pagekw_end,
                       !.ms = Tail(@)]

MatchStep ==
    /\ pc = "calc_match"
    /\ frame.ms # <<>>
    /\ MatchBody(Head(frame.ms))
    /\ UNCHANGED <<data, sections, output, pc, exc>>
    /\ UNCHANGED <<wpVars, firstpass, ehVars, earlier, ftVars>>

\* after the last match of the chunk: lines 219-230
ChunkEnd ==
    /\ pc = "calc_match"
    /\ frame.ms = <<>>
    /\ LET chunk == data[frame.ci]
           body == alltext \o SliceFrom(chunk.text, frame.current)
           text1 == IF Truthy(chunk.section) THEN Append(body, NL) ELSE body
       IN  /\ alltext' = text1
           /\ sections' = IF Truthy(chunk.section)
                          THEN Append(sections, [name  |-> chunk.section,
                                                 start |-> frame.pivot,
                                                 end   |-> Len(text1) - 1])
                          ELSE sections
           /\ frame' = [frame EXCEPT !.pivot = Len(text1), !.ci = @ + 1]
    /\ pc' = "calc_chunk"
    /\ UNCHANGED <<data, pages, output, exc>>
    /\ UNCHANGED <<wpVars, firstpass, ehVars, earlier, ftVars>>

\* after the last chunk: lines 232-236; _adjust_borders starts
CalculateEnd ==
    /\ pc = "calc_chunk"
    /\ frame.ci > Len(data)
    /\ pages' = IF frame.is_page_start
                THEN Append(pages, [name  |-> frame.page_info,
                                    start |-> frame.my_last_end + 1,
                                    end   |-> frame.pivot - 1])
                ELSE pages
    /\ frame' = [frame EXCEPT !.k = 1]
    /\ pc' = "adjust"
    /\ UNCHANGED <<data, alltext, sections, output, exc>>
    /\ UNCHANGED <<wpVars, firstpass, ehVars, earlier, ftVars>>

Returned(v) == [raised |-> FALSE, val |-> v]
Raised == [raised |-> TRUE, val |-> 0]

RECURSIVE AdjustStartBackwards(_, _)
\* AdjustStart stepping back over the separators instead of forward
AdjustStartBackwards(text, s) ==
    IF ~IndexOK(text, s) THEN Raised
    ELSE IF At(text, s) \in {NL, SP} THEN AdjustStartBackwards(text, s - 1)
    ELSE Returned(s)

RECURSIVE AdjustStart(_, _)
\* while self.alltext[entry['start']] in ('\n', ' '): entry['start'] += 1
AdjustStart(text, s) ==
    IF ~IndexOK(text, s) THEN Raised
    ELSE IF At(text, s) \in {NL, SP} THEN AdjustStart(text, s + 1)
    ELSE Returned(s)

RECURSIVE AdjustEnd(_, _)
\* while self.alltext[entry['end']] == '\n': entry['end'] -= 1
AdjustEnd(text, e) ==
    IF ~IndexOK(text, e) THEN Raised
    ELSE IF At(text, e) = NL THEN AdjustEnd(text, e - 1)
    ELSE Returned(e)

\* the entries in the order _adjust_borders visits them
AdjustOrder == sections \o pages

\* the body of the loop over the entries, lines 249-253, for the k-th entry
AdjustEntry ==
    /\ pc = "adjust"
    /\ frame.k <= Len(AdjustOrder)
    /\ LET k == frame.k
           entry == AdjustOrder[k]
           s == AdjustStart(alltext, entry.start)
           e == AdjustEnd(alltext, entry.end)
           insec == k <= Len(sections)
           j == IF insec THEN k ELSE k - Len(sections)
       IN  IF s.raised
           THEN /\ exc' = IndexError
                /\ pc' = "raised"
                /\ UNCHANGED <<sections, pages, frame>>
           ELSE IF e.raised
           THEN /\ exc' = IndexError
                /\ pc' = "raised"
                /\ sections' = IF insec
                               THEN [sections EXCEPT ![j].start = s.val]
                               ELSE sections
                /\ pages' = IF insec THEN pages
                            ELSE [pages EXCEPT ![j].start = s.val]
                /\ UNCHANGED frame
           ELSE /\ sections' = IF insec
                               THEN [sections EXCEPT ![j].start = s.val,
                                                     ![j].end = e.val]
                               ELSE sections
                /\ pages' = IF insec THEN pages
                            ELSE [pages EXCEPT ![j].start = s.val,
                                               ![j].end = e.val]
                /\ frame' = [frame EXCEPT !.k = @ + 1]
                /\ UNCHANGED <<pc, exc>>
    /\ UNCHANGED <<data, alltext, output>>
    /\ UNCHANGED <<wpVars, firstpass, ehVars, earlier, ftVars>>

\* build() returns, lines 269-271
BuildReturn ==
    /\ pc = "adjust"
    /\ frame.k > Len(AdjustOrder)
    /\ output' = [text |-> alltext, sections |-> sections, pages |-> pages]
    /\ pc' = "returned"
    /\ UNCHANGED <<data, alltext, sections, pages, frame, exc>>
    /\ UNCHANGED <<wpVars, firstpass, ehVars, earlier, ftVars>>

(***************************************************************************)
(* The chunk sequences given to OffsetsBuilder                             *)
(***************************************************************************)

MaxChunks == 2
\* pieces of text in the whole chunk sequence
MaxPieces == 4

Marker(info) == PagekwOutOpen \o info \o PagekwOutClose

Marker1 == Marker(<<"1">>)
Marker2 == Marker(<<"AR2", "3", "v">>)
\* the opening token, then info that is no page info, then the closing token
MalformedMarker == Marker(<<"a", "b", "c">>)

ChunkPieces == {Marker1, Marker2, <<SP>>, <<NL>>, <<"a">>}

SectionNames == {None, <<>>, <<"A">>, <<"B">>}

\* the sequences of at most n of the pieces
PieceSeqs(pieces, n) == UNION {[1..k -> pieces] : k \in 0..n}

\* where the chunks 1..c-1 end in a sequence of n pieces
Cuts(c, n) ==
    {f \in [1..(c - 1) -> 0..n] : \A i \in 1..(c - 2) : f[i] <= f[i + 1]}

\* the c chunks with sections secs that cut the pieces ps at cuts
ChunkSeq(ps, secs, cuts) ==
    LET c == Len(secs)
        from(i) == IF i = 1 THEN 1 ELSE cuts[i - 1] + 1
        to(i) == IF i = c THEN Len(ps) ELSE cuts[i]
    IN  [i \in 1..c |-> [section |-> secs[i],
                         text |-> Concat(SubSeq(ps, from(i), to(i)))]]

\* data is a sequence of at most MaxChunks chunks made of at most MaxPieces
\* of the pieces together
IsChunkSequence(pieces) ==
    \E c \in 0..MaxChunks :
      \E ps \in PieceSeqs(pieces, IF c = 0 THEN 0 ELSE MaxPieces) :
        \E secs \in [1..c -> SectionNames] :
          \E cuts \in Cuts(c, Len(ps)) :
            data = ChunkSeq(ps, secs, cuts)

\* _cleaner has not run before
NoFirstPass == [done |-> FALSE, out |-> <<>>, warns |-> <<>>]

\* export() has not returned
NotReturned == [returned |-> FALSE, val |-> <<>>]

\* export(title=None)
NoTitle == [given |-> FALSE, name |-> 0]

\* no wiki, no ExportHandler
NoHandler ==
    [title |-> NoTitle,
     wiki |-> [login |-> "Success", index |-> "ok", scans |-> <<>>],
     pages |-> <<>>, k |-> 0, out |-> <<>>, data |-> NotReturned,
     w |-> 0, exit |-> -1]

\* _export_title has not been called
NoFetch == [wiki |-> <<>>, npage |-> 0, texts |-> <<>>, requested |-> <<>>]

FetchIdle == fetch = NoFetch

\* no TSVConverter
NoTsv ==
    [content |-> <<>>, ci |-> 0, section |-> <<"None">>, items |-> <<>>,
     tokens |-> <<>>, cnt_sentence |-> 0, cnt_token |-> 0,
     sectioninfo |-> <<>>, pageinfo |-> <<>>, newpage |-> FALSE,
     newsection |-> FALSE, out |-> <<>>, ret |-> <<"None">>]

ConvertIdle == tsv = NoTsv

ExportIdle ==
    /\ handler = NoHandler
    /\ files = {}

WPIdle ==
    /\ rawtexts = <<>>
    /\ title = None
    /\ parser = <<>>
    /\ warnings = <<>>
    /\ result = NoResult

\* OffsetsBuilder(data), lines 112-115
InitOB ==
    /\ IsChunkSequence(ChunkPieces)
    /\ alltext = <<>>
    /\ sections = <<>>
    /\ pages = <<>>
    /\ frame = NoFrame
    /\ output = NoOutput
    /\ earlier = NoOutput
    /\ pc = "constructed"
    /\ exc = NoExc
    /\ WPIdle
    /\ firstpass = NoFirstPass
    /\ FetchIdle
    /\ ConvertIdle
    /\ ExportIdle

NextOB ==
    \/ CalculateBegin
    \/ ChunkBegin
    \/ MatchStep
    \/ ChunkEnd
    \/ CalculateEnd
    \/ AdjustEntry
    \/ BuildReturn

SpecOB == InitOB /\ [][NextOB]_vars

(***************************************************************************)
(* WikiParser: configuration                                               *)
(***************************************************************************)

TAB == "TAB"
QUOTE == "QUOTE"

\* [wiki format] page keyword input: the Arabic word for "page"
PagekwInput == <<"sad", "feh", "hah", "teh">>

\* [wiki format] char to strip
TitleStrip == "="

\* [unicode]
RTL == "RTL"
LTR == "LTR"
BOM == "BOM"
DoublePrime == "DPRIME"
TanwinFatha == "TANWIN"
WAW == "waw"
ArabicZero == "AR0"

\* [quotation marks]: the variants normalised to QUOTE
QuotationMarks == {"LDQUOTE", "RDQUOTE"}

\* [punctuation delimiters pairs]: opening character -> closing character
PunctPairs == [ch \in {"(", "[", "LGUIL"} |->
                 CASE ch = "(" -> ")" [] ch = "[" -> "]" [] OTHER -> "RGUIL"]
PunctOpening == DOMAIN PunctPairs
\* CLOSING = _PUNCT_PAIRS.values()
PunctClosing == {PunctPairs[ch] : ch \in PunctOpening}

\* [punctuation delimiters equal]
PunctEqual == {QUOTE}

\* [wiki format] title pattern, as ^...$: "==", something, "=="
IsTitle(li) ==
    /\ Len(li) >= 5
    /\ SubSeq(li, 1, 2) = <<TitleStrip, TitleStrip>>
    /\ SubSeq(li, Len(li) - 1, Len(li)) = <<TitleStrip, TitleStrip>>

\* IsPageInfo without the $ of the pattern: a prefix that is page info is enough
IsPageInfoPrefix(pageinfo) == PageAllowedEnd(pageinfo, 0) # -1

\* _page_pattern.match(pageinfo): ^page allowed$
IsPageInfo(pageinfo) == PageAllowedEnd(pageinfo, 0) = Len(pageinfo)

(***************************************************************************)
(* str methods                                                             *)
(***************************************************************************)

Whitespace == {SP, TAB, NL}

RECURSIVE LStrip(_, _)
LStrip(s, chars) ==
    IF s # <<>> /\ Head(s) \in chars THEN LStrip(Tail(s), chars) ELSE s

RECURSIVE RStrip(_, _)
RStrip(s, chars) ==
    IF s # <<>> /\ s[Len(s)] \in chars
    THEN RStrip(SubSeq(s, 1, Len(s) - 1), chars) ELSE s

\* s.strip(chars)
StripChars(s, chars) == RStrip(LStrip(s, chars), chars)

\* s.strip()
Strip(s) == StripChars(s, Whitespace)

\* ch in s
Contains(s, ch) == \E i \in 1..Len(s) : s[i] = ch

\* sub in s
ContainsSeq(s, sub) == \E p \in 0..(Len(s) - Len(sub)) : StartsWithAt(s, sub, p)

RECURSIVE ReplaceSeq(_, _, _)
\* s.replace(old, new), old not empty: the occurrences of old, left to
\* right, none overlapping another
ReplaceSeq(s, old, new) ==
    LET starts == {q \in 0..(Len(s) - Len(old)) : StartsWithAt(s, old, q)}
    IN  IF starts = {} THEN s
        ELSE LET q == CHOOSE q \in starts : \A r \in starts : q <= r
             IN  Slice(s, 0, q) \o new
                 \o ReplaceSeq(SliceFrom(s, q + Len(old)), old, new)

\* re.sub('[chars]', to, s)
MapChars(s, chars, to) ==
    [i \in 1..Len(s) |-> IF s[i] \in chars THEN to ELSE s[i]]

\* re.sub(r'[\t ]+', ' ', s): of every run of spaces and tabs the first
\* character stays, as a space
CollapseSpaces(s) ==
    LET blank(i) == s[i] \in {SP, TAB}
        kept == {i \in 1..Len(s) : ~(blank(i) /\ i > 1 /\ blank(i - 1))}
        nth(k) == CHOOSE i \in kept : Cardinality({j \in kept : j <= i}) = k
    IN  [k \in 1..Cardinality(kept) |->
           IF blank(nth(k)) THEN SP ELSE s[nth(k)]]

RECURSIVE SplitLines(_)
\* s.splitlines()
SplitLines(s) ==
    IF s = <<>> THEN <<>>
    ELSE IF \E i \in 1..Len(s) : s[i] = NL
         THEN LET i == CHOOSE k \in 1..Len(s) :
                          s[k] = NL /\ \A m \in 1..(k - 1) : s[m] # NL
              IN  <<SubSeq(s, 1, i - 1)>> \o SplitLines(SliceFrom(s, i))
         ELSE <<s>>

RECURSIVE JoinWith(_, _)
\* sep.join(ss)
JoinWith(sep, ss) ==
    IF ss = <<>> THEN <<>>
    ELSE IF Len(ss) = 1 THEN Head(ss)
    ELSE Head(ss) \o sep \o JoinWith(sep, Tail(ss))

(***************************************************************************)
(* util.striplines                                                         *)
(***************************************************************************)

\* the length of the run of elements equal to the first that starts ls
RunLength(ls) ==
    CHOOSE n \in 1..Len(ls) :
        /\ \A k \in 1..n : ls[k] = ls[1]
        /\ n = Len(ls) \/ ls[n + 1] # ls[1]

RECURSIVE GroupEqual(_)
\* [list(g) for k, g in it.groupby(ls)]: the runs of equal elements
GroupEqual(ls) ==
    IF ls = <<>> THEN <<>>
    ELSE LET n == RunLength(ls)
         IN  <<SubSeq(ls, 1, n)>> \o GroupEqual(SubSeq(ls, n + 1, Len(ls)))

\* not any(l.strip() for l in group)
AllBlank(group) == \A k \in 1..Len(group) : Strip(group[k]) = <<>>

\* list(striplines(lines)); lines[0] and lines[-1] raise IndexError on an
\* empty list
StripLines(lines) ==
    LET g0 == GroupEqual([k \in 1..Len(lines) |-> Strip(lines[k])])
    IN  IF g0 = <<>> THEN Raised
        ELSE LET g1 == IF AllBlank(g0[1]) THEN Tail(g0) ELSE g0
             IN  IF g1 = <<>> THEN Raised
                 ELSE LET g2 == IF AllBlank(g1[Len(g1)])
                                THEN SubSeq(g1, 1, Len(g1) - 1) ELSE g1
                      IN  Returned([k \in 1..Len(g2) |-> g2[k][1]])

(***************************************************************************)
(* WikiParser._cleaner                                                     *)
(***************************************************************************)

Warning(kind, page, info) == [kind |-> kind, page |-> page, info |-> info]

ValueError(page, t) == [type |-> "ValueError", page |-> page, title |-> t]

\* PunctChar leaving on the stack an opener that the closer does not match
PunctCharKeepsUnmatched(st, i, current) ==
    LET stack == st.stack
        top == stack[Len(stack)]
        popped == SubSeq(stack, 1, Len(stack) - 1)
        warn(w) == [st EXCEPT !.warns = Append(@, w)]
    IN  IF current \notin PunctEqual \cup PunctOpening \cup PunctClosing
        THEN st
        ELSE IF current \in PunctClosing
        THEN IF stack = <<>>
             THEN warn(Warning("opening_missing", i, <<current>>))
             ELSE IF top.ch \in PunctEqual \/ top.ch \in PunctClosing
             THEN [stack |-> popped,
                   warns |-> Append(st.warns,
                       Warning("opening_missing", top.page, <<top.ch>>))]
             ELSE IF PunctPairs[top.ch] # current
             THEN warn(Warning("dont_match", i, <<top.ch, current>>))
             ELSE [st EXCEPT !.stack = popped]
        ELSE IF current \in PunctEqual
        THEN IF stack = <<>>
             THEN [st EXCEPT !.stack = <<[page |-> i, ch |-> current]>>]
             ELSE IF current = top.ch
             THEN [st EXCEPT !.stack = popped]
             ELSE [st EXCEPT !.stack = Append(stack,
                                              [page |-> i, ch |-> current])]
        ELSE [st EXCEPT !.stack = Append(stack, [page |-> i, ch |-> current])]

\* one character of the balance check, lines 242-275: st = [stack, warns]
PunctChar(st, i, current) ==
    LET stack == st.stack
        top == stack[Len(stack)]
        popped == SubSeq(stack, 1, Len(stack) - 1)
        warn(w) == [st EXCEPT !.warns = Append(@, w)]
    IN  IF current \notin PunctEqual \cup PunctOpening \cup PunctClosing
        THEN st  \* continue
        ELSE IF current \in PunctClosing
        THEN IF stack = <<>>
             THEN warn(Warning("opening_missing", i, <<current>>))
             ELSE IF top.ch \in PunctEqual \/ top.ch \in PunctClosing
             THEN [stack |-> popped,
                   warns |-> Append(st.warns,
                       Warning("opening_missing", top.page, <<top.ch>>))]
             ELSE IF PunctPairs[top.ch] # current
             THEN [stack |-> popped,
                   warns |-> Append(st.warns,
                       Warning("dont_match", i, <<top.ch, current>>))]
             ELSE [st EXCEPT !.stack = popped]
        ELSE IF current \in PunctEqual
        THEN IF stack = <<>>
             THEN [st EXCEPT !.stack = <<[page |-> i, ch |-> current]>>]
             ELSE IF current = top.ch
             THEN [st EXCEPT !.stack = popped]
             ELSE [st EXCEPT !.stack = Append(stack,
                                              [page |-> i, ch |-> current])]
        ELSE [st EXCEPT !.stack = Append(stack, [page |-> i, ch |-> current])]

\* the test of lines 242-245: current takes no part in the balance check
Irrelevant(current) ==
    current \notin PunctEqual \cup PunctOpening \cup PunctClosing

RECURSIVE PunctFold(_, _, _)
PunctFold(st, i, chars) ==
    IF chars = <<>> THEN st
    ELSE PunctFold(PunctChar(st, i, Head(chars)), i, Tail(chars))

\* PunctScan starting every line with an empty stack
PunctScanFreshStack(st, i, li) ==
    PunctFold([st EXCEPT !.stack = <<>>], i,
              SelectSeq(li, LAMBDA ch : ~Irrelevant(ch)))

\* for current in li: lines 240-275; the characters that take no part are
\* passed over
PunctScan(st, i, li) ==
    PunctFold(st, i, SelectSeq(li, LAMBDA ch : ~Irrelevant(ch)))

\* the sanitising steps of lines 194-237 on a line li of page i:
\* [line: what is appended to aux, scanned: what the balance check reads,
\*  warns]
Sanitize(li, i) ==
    LET w1 == IF Contains(li, "=")
                 /\ ~StartsWith(li, <<"=", "=">>)
              THEN <<Warning("malformed_title", i, <<>>)>> ELSE <<>>
        w2 == IF Contains(li, BOM)
              THEN <<Warning("bom", i, <<>>)>> ELSE <<>>
        l2 == ReplaceSeq(li, <<BOM>>, <<>>)
        w3 == IF Contains(l2, DoublePrime)
              THEN <<Warning("double_prime", i, <<>>)>> ELSE <<>>
        l3 == ReplaceSeq(l2, <<DoublePrime>>, <<TanwinFatha>>)
        l4 == MapChars(l3, QuotationMarks, QUOTE)
        w4 == IF l4 # l3 THEN <<Warning("quotation", i, <<>>)>> ELSE <<>>
        w5 == IF ContainsSeq(l4, <<SP, WAW, QUOTE>>)
              THEN <<Warning("waw", i, <<>>)>> ELSE <<>>
        l5 == ReplaceSeq(l4, <<SP, WAW, QUOTE>>, <<WAW, SP, QUOTE>>)
        w6 == IF Contains(l5, ArabicZero)
              THEN <<Warning("arabic_zero", i, <<>>)>> ELSE <<>>
    IN  [line |-> CollapseSpaces(l5), scanned |-> l5,
         warns |-> w1 \o w2 \o w3 \o w4 \o w5 \o w6]

(***************************************************************************)
(* WikiParser.parse, after _cleaner                                        *)
(***************************************************************************)

\* the length of the run of lines that are no titles that starts ls
PlainRunLength(ls) ==
    CHOOSE n \in 1..Len(ls) :
        /\ \A k \in 1..n : ~IsTitle(ls[k])
        /\ n = Len(ls) \/ IsTitle(ls[n + 1])

RECURSIVE GroupTitles(_)
\* [(k, list(g)) for k, g in it.groupby(lines, _title_pattern.match)]: the
\* key of a title line is its match object, equal to no other match object,
\* so every title line is a group of its own; the key of the others is None
GroupTitles(lines) ==
    IF lines = <<>> THEN <<>>
    ELSE IF IsTitle(Head(lines))
         THEN <<[k |-> TRUE, g |-> <<Head(lines)>>]>>
              \o GroupTitles(Tail(lines))
         ELSE LET n == PlainRunLength(lines)
              IN  <<[k |-> FALSE, g |-> SubSeq(lines, 1, n)]>>
                  \o GroupTitles(SubSeq(lines, n + 1, Len(lines)))

RECURSIVE JoinTitleTextFrom(_, _)
\* what _join_titletext yields from groups[i] on (lines 133-151):
\* [section, txts, notext: the warning of line 145 goes before it]
JoinTitleTextFrom(groups, i) ==
    IF i > Len(groups) THEN <<>>
    ELSE IF ~groups[i].k
         THEN <<[section |-> None, txts |-> groups[i].g, notext |-> FALSE]>>
              \o JoinTitleTextFrom(groups, i + 1)
         ELSE LET section == StripChars(groups[i].g[1], {TitleStrip, SP})
              IN  IF i + 1 > Len(groups)
                  THEN <<[section |-> section, txts |-> <<>>,
                          notext |-> TRUE]>>
                  ELSE <<[section |-> section, txts |-> groups[i + 1].g,
                          notext |-> FALSE]>>
                       \o JoinTitleTextFrom(groups, i + 2)

JoinTitleText(groups) == JoinTitleTextFrom(groups, 1)

\* ' '.join(t if t else '\n' for t in stripped)
JoinText(stripped) ==
    JoinWith(<<SP>>, [k \in 1..Len(stripped) |->
                        IF stripped[k] # <<>> THEN stripped[k] ELSE <<NL>>])

RECURSIVE BuildChunks(_, _)
\* the list comprehension of lines 317-319 over what _join_titletext yields,
\* acc = [raised, chunks, warns] so far
BuildChunks(yielded, acc) ==
    IF yielded = <<>> THEN acc
    ELSE LET y == Head(yielded)
             warns == IF y.notext
                      THEN Append(acc.warns, Warning("no_text", 0, y.section))
                      ELSE acc.warns
             stripped == StripLines(y.txts)
         IN  IF stripped.raised
             THEN [raised |-> TRUE, chunks |-> <<>>, warns |-> warns]
             ELSE BuildChunks(Tail(yielded),
                      [raised |-> FALSE,
                       chunks |-> Append(acc.chunks,
                                         [section |-> y.section,
                                          text |-> JoinText(stripped.val)]),
                       warns |-> warns])

(***************************************************************************)
(* WikiParser: the calls                                                   *)
(***************************************************************************)

\* the locals of parse() and _cleaner before they run; args are the
\* arguments given to the constructor
NewParser(rawtexts_arg, title_arg) ==
    [args |-> [rawtexts |-> rawtexts_arg, title |-> title_arg],
     groupslines |-> <<>>, i |-> 0, j |-> 0, aux |-> <<>>, out |-> <<>>,
     stack |-> <<>>, lines |-> <<>>]

ConstructorError(arg) == [type |-> "ValueError", arg |-> arg]

\* enumerate(..., 1): the number of the k-th page
PageNumberFromZero(k) == k - 1

PageNumber(k) == k

\* Construct with the two checks of lines 107-110 in the other order
ConstructChecksTitleFirst ==
    /\ pc = "wp_new"
    /\ IF parser.args.title \in {None, <<>>}
       THEN /\ exc' = ConstructorError("title")
            /\ pc' = "wp_raised"
            /\ UNCHANGED <<rawtexts, title>>
       ELSE IF parser.args.rawtexts \in {NoneList, <<>>}
       THEN /\ exc' = ConstructorError("rawtexts")
            /\ pc' = "wp_raised"
            /\ UNCHANGED <<rawtexts, title>>
       ELSE /\ rawtexts' = parser.args.rawtexts
            /\ title' = parser.args.title
            /\ pc' = "wp_constructed"
            /\ UNCHANGED exc
    /\ UNCHANGED <<parser, warnings, result>>
    /\ UNCHANGED <<obVars, firstpass, ehVars, ftVars>>

\* WikiParser(rawtexts, title), lines 107-113
Construct ==
    /\ pc = "wp_new"
    /\ IF parser.args.rawtexts \in {NoneList, <<>>}
       THEN /\ exc' = ConstructorError("rawtexts")
            /\ pc' = "wp_raised"
            /\ UNCHANGED <<rawtexts, title>>
       ELSE IF parser.args.title \in {None, <<>>}
       THEN /\ exc' = ConstructorError("title")
            /\ pc' = "wp_raised"
            /\ UNCHANGED <<rawtexts, title>>
       ELSE /\ rawtexts' = parser.args.rawtexts
            /\ title' = parser.args.title
            /\ pc' = "wp_constructed"
            /\ UNCHANGED exc
    /\ UNCHANGED <<parser, warnings, result>>
    /\ UNCHANGED <<obVars, firstpass, ehVars, ftVars>>

\* parse() is called: line 298, and _cleaner starts, lines 164-167
ParseBegin ==
    /\ pc = "wp_constructed"
    /\ parser' = [parser EXCEPT
                    !.groupslines = [k \in 1..Len(rawtexts) |->
                                       SplitLines(rawtexts[k])],
                    !.i = 1, !.j = 1, !.aux = <<>>, !.out = <<>>,
                    !.stack = <<>>]
    /\ pc' = "cleaning"
    /\ UNCHANGED <<rawtexts, title, warnings, result, exc>>
    /\ UNCHANGED <<obVars, firstpass, ehVars, ftVars>>

\* the body of the loop over the lines of a page, lines 171-275, for the
\* line li of the page numbered i
CleanLine ==
    /\ pc = "cleaning"
    /\ parser.i <= Len(parser.groupslines)
    /\ parser.j <= Len(parser.groupslines[parser.i])
    /\ LET i == PageNumber(parser.i)
           li == parser.groupslines[parser.i][parser.j]
           next == [parser EXCEPT !.j = @ + 1]
       IN  IF li = <<RTL>> \/ li = <<LTR>>
           THEN /\ parser' = next
                /\ UNCHANGED <<warnings, pc, exc>>
           ELSE IF li = <<>>
           THEN /\ parser' = [next EXCEPT !.aux = Append(@, li)]
                /\ UNCHANGED <<warnings, pc, exc>>
           ELSE IF StartsWith(li, PagekwInput)
           THEN LET pageinfo == Strip(SliceFrom(li, Len(PagekwInput)))
                IN  IF ~IsPageInfo(pageinfo)
                    THEN /\ exc' = ValueError(i, title)
                         /\ pc' = "wp_raised"
                         /\ UNCHANGED <<parser, warnings>>
                    ELSE /\ parser' = [next EXCEPT !.aux = Append(@,
                                 PagekwOutOpen \o pageinfo \o PagekwOutClose)]
                         /\ UNCHANGED <<warnings, pc, exc>>
           ELSE LET sane == Sanitize(li, i)
                    st == PunctScan([stack |-> parser.stack,
                                     warns |-> warnings \o sane.warns],
                                    i, sane.scanned)
                IN  /\ parser' = [next EXCEPT !.aux = Append(@, sane.line),
                                              !.stack = st.stack]
                    /\ warnings' = st.warns
                    /\ UNCHANGED <<pc, exc>>
    /\ UNCHANGED <<rawtexts, title, result>>
    /\ UNCHANGED <<obVars, firstpass, ehVars, ftVars>>

\* PageEnd with the stack emptied for the next page
PageEndResetsStack ==
    /\ pc = "cleaning"
    /\ parser.i <= Len(parser.groupslines)
    /\ parser.j > Len(parser.groupslines[parser.i])
    /\ parser' = [parser EXCEPT
                    !.out = Append(@, [i |-> PageNumber(parser.i),
                                       lines |-> parser.aux]),
                    !.aux = <<>>, !.i = @ + 1, !.j = 1, !.stack = <<>>]
    /\ UNCHANGED <<rawtexts, title, warnings, result, pc, exc>>
    /\ UNCHANGED <<obVars, firstpass, ehVars, ftVars>>

\* after the last line of a page: line 277
PageEnd ==
    /\ pc = "cleaning"
    /\ parser.i <= Len(parser.groupslines)
    /\ parser.j > Len(parser.groupslines[parser.i])
    /\ parser' = [parser EXCEPT
                    !.out = Append(@, [i |-> PageNumber(parser.i),
                                       lines |-> parser.aux]),
                    !.aux = <<>>, !.i = @ + 1, !.j = 1]
    /\ UNCHANGED <<rawtexts, title, warnings, result, pc, exc>>
    /\ UNCHANGED <<obVars, firstpass, ehVars, ftVars>>

\* CleanerEnd with every warning naming the page the loop ended on
CleanerEndNamesLastPage ==
    /\ pc = "cleaning"
    /\ parser.i > Len(parser.groupslines)
    /\ warnings' = warnings \o
           [k \in 1..Len(parser.stack) |->
              Warning("closing_missing", PageNumber(parser.i - 1),
                      <<parser.stack[k].ch>>)]
    /\ parser' = [parser EXCEPT !.groupslines = parser.out]
    /\ pc' = "cleaned"
    /\ UNCHANGED <<rawtexts, title, result, exc>>
    /\ UNCHANGED <<obVars, firstpass, ehVars, ftVars>>

\* after the last page: lines 280-285
CleanerEnd ==
    /\ pc = "cleaning"
    /\ parser.i > Len(parser.groupslines)
    /\ warnings' = warnings \o
           [k \in 1..Len(parser.stack) |->
              Warning("closing_missing", parser.stack[k].page,
                      <<parser.stack[k].ch>>)]
    /\ parser' = [parser EXCEPT !.groupslines = parser.out]
    /\ pc' = "cleaned"
    /\ UNCHANGED <<rawtexts, title, result, exc>>
    /\ UNCHANGED <<obVars, firstpass, ehVars, ftVars>>

\* lines 306-312: every page through striplines, then all lines in one list
StripPages ==
    /\ pc = "cleaned"
    /\ LET grlines == [k \in 1..Len(parser.groupslines) |->
                         StripLines(parser.groupslines[k].lines)]
       IN  IF \E k \in 1..Len(grlines) : grlines[k].raised
           THEN /\ exc' = IndexError
                /\ pc' = "wp_raised"
                /\ UNCHANGED parser
           ELSE /\ parser' = [parser EXCEPT !.lines =
                      Concat([k \in 1..Len(grlines) |-> grlines[k].val])]
                /\ pc' = "stripped"
                /\ UNCHANGED exc
    /\ UNCHANGED <<rawtexts, title, warnings, result>>
    /\ UNCHANGED <<obVars, firstpass, ehVars, ftVars>>

\* lines 315-319: the lines grouped by titles, the chunks built and returned
GroupAndJoin ==
    /\ pc = "stripped"
    /\ LET gr_titles == GroupTitles(parser.lines)
           built == BuildChunks(JoinTitleText(gr_titles),
                                [raised |-> FALSE, chunks |-> <<>>,
                                 warns |-> warnings])
       IN  /\ warnings' = built.warns
           /\ IF built.raised
              THEN /\ exc' = IndexError
                   /\ pc' = "wp_raised"
                   /\ UNCHANGED result
              ELSE /\ result' = [returned |-> TRUE, chunks |-> built.chunks]
                   /\ pc' = "parsed"
                   /\ UNCHANGED exc
    /\ UNCHANGED <<rawtexts, title, parser>>
    /\ UNCHANGED <<obVars, firstpass, ehVars, ftVars>>

(***************************************************************************)
(* The pages given to WikiParser                                           *)
(***************************************************************************)

MaxPages == 2
\* pieces of text in all pages together
MaxRawPieces == 4

TitleLine(name) == <<"=", "=">> \o name \o <<"=", "=">>

RawPieces ==
    {<<NL>>, <<SP>>, <<"x">>, <<"2">>, <<"r">>, PagekwInput,
     TitleLine(<<"A">>)}

TitleArgs == {None, <<>>, <<"T">>}

\* the c pages that cut the pieces ps at cuts
PageSeq(ps, c, cuts) ==
    LET from(k) == IF k = 1 THEN 1 ELSE cuts[k - 1] + 1
        to(k) == IF k = c THEN Len(ps) ELSE cuts[k]
    IN  [k \in 1..c |-> Concat(SubSeq(ps, from(k), to(k)))]

OBIdle ==
    /\ data = <<>>
    /\ alltext = <<>>
    /\ sections = <<>>
    /\ pages = <<>>
    /\ frame = NoFrame
    /\ output = NoOutput
    /\ earlier = NoOutput

\* before WikiParser(rawtexts, title) is called
InitWP ==
    /\ \E c \in 0..MaxPages :
         \E ps \in PieceSeqs(RawPieces, IF c = 0 THEN 0 ELSE MaxRawPieces) :
           \E cuts \in Cuts(c, Len(ps)) :
             \E t \in TitleArgs :
               \E pgs \in {NoneList, PageSeq(ps, c, cuts)} :
                 parser = NewParser(pgs, t)
    /\ rawtexts = <<>>
    /\ title = None
    /\ warnings = <<>>
    /\ result = NoResult
    /\ pc = "wp_new"
    /\ exc = NoExc
    /\ OBIdle
    /\ firstpass = NoFirstPass
    /\ FetchIdle
    /\ ConvertIdle
    /\ ExportIdle

NextWP ==
    \/ Construct
    \/ ParseBegin
    \/ CleanLine
    \/ PageEnd
    \/ CleanerEnd
    \/ StripPages
    \/ GroupAndJoin

SpecWP == InitWP /\ [][NextWP]_vars

(***************************************************************************)
(* Properties of OffsetsBuilder.build()                                    *)
(***************************************************************************)

IsSeparator(ch) == ch \in {SP, NL}

\* the offsets of text
Offsets(text) == 0..(Len(text) - 1)

RECURSIVE MarkersOf(_)
\* the matches of the whole chunk sequence, in document order
MarkersOf(chunks) ==
    IF chunks = <<>> THEN <<>>
    ELSE FindIter(Head(chunks).text) \o MarkersOf(Tail(chunks))

\* range r holds offset i
Covers(r, i) == r.start <= i /\ i <= r.end

\* C1: every section range and every page range of the output satisfies
\* 0 <= start <= end <= len(text) - 1
C1_RangesWithinText ==
    pc = "returned" =>
        \A r \in Range(output.sections) \cup Range(output.pages) :
            /\ 0 <= r.start
            /\ r.start <= r.end
            /\ r.end <= Len(output.text) - 1

\* C2: build() raises no exception for any chunk sequence
C2_BuildNeverRaises == pc # "raised" /\ exc = NoExc

\* every page range of the output lies within the text
PagesWithinText ==
    \A r \in Range(output.pages) :
        0 <= r.start /\ r.start <= r.end /\ r.end <= Len(output.text) - 1

\* C3: consecutive page ranges of the output are contiguous:
\* q.start = p.end + 1 (stated for the outputs whose page ranges lie within
\* the text)
C3_PagesContiguous ==
    (pc = "returned" /\ PagesWithinText) =>
        \A i \in 1..(Len(output.pages) - 1) :
            output.pages[i + 1].start = output.pages[i].end + 1

\* the only marker of the document stands at the very beginning of the first
\* chunk
OnlyMarkerAtBeginning ==
    /\ Len(MarkersOf(data)) = 1
    /\ data # <<>>
    /\ FindIter(data[1].text) # <<>>
    /\ FindIter(data[1].text)[1].start = 0

\* C4: when the only marker stands at the very beginning of the first chunk
\* (and the text does not begin with a separator), the single page range
\* starts at offset 0 and ends at the last character of the text that is no
\* newline
C4_SinglePageFromZero ==
    (pc = "returned" /\ OnlyMarkerAtBeginning
       /\ ~IsSeparator(output.text[1])) =>
        /\ Len(output.pages) = 1
        /\ output.pages[1].start = 0
        /\ output.pages[1].end = AdjustEnd(output.text,
                                           Len(output.text) - 1).val

\* C5: in the output, start and end of every range are offsets of the text,
\* text[start] is neither a space nor a newline and text[end] is no newline
C5_OffsetsOnContent ==
    pc = "returned" =>
        \A r \in Range(output.sections) \cup Range(output.pages) :
            /\ r.start \in Offsets(output.text)
            /\ r.end \in Offsets(output.text)
            /\ ~IsSeparator(At(output.text, r.start))
            /\ At(output.text, r.end) # NL

\* the page ranges of the output that hold offset i
PagesCovering(i) ==
    {k \in 1..Len(output.pages) : Covers(output.pages[k], i)}

\* C6: with at least one marker, the page ranges taken in order give the
\* text back with only separators missing: no offset lies in two page
\* ranges, and every character that is no separator lies in one
C6_PagesRoundTrip ==
    (pc = "returned" /\ MarkersOf(data) # <<>>) =>
        \A i \in Offsets(output.text) :
            /\ Cardinality(PagesCovering(i)) <= 1
            /\ ~IsSeparator(At(output.text, i)) =>
                   Cardinality(PagesCovering(i)) = 1

\* _calculate has run to its end
CalculateDone == pc \in {"adjust", "returned", "raised"}

\* C7: there are as many page ranges as marker matches in the whole chunk
\* sequence, and the i-th page range is named after the i-th marker
C7_OnePagePerMarker ==
    LET ms == MarkersOf(data)
    IN  /\ CalculateDone =>
            /\ Len(pages) = Len(ms)
            /\ \A i \in 1..Len(ms) : pages[i].name = ms[i].info
        /\ pc = "returned" =>
            /\ Len(output.pages) = Len(ms)
            /\ \A i \in 1..Len(ms) : output.pages[i].name = ms[i].info

\* build() returned three pages, not all of one chunk, the first two named
\* differently
C7_Witness ==
    /\ pc = "returned"
    /\ Len(data) = 2
    /\ FindIter(data[1].text) # <<>>
    /\ FindIter(data[2].text) # <<>>
    /\ Len(output.pages) = 3
    /\ output.pages[1].name # output.pages[2].name

\* C19: when a marker closes the previous page, the end recorded for that
\* page is the offset of the last character of the text built up to the
\* marker (its length minus 1), in whatever chunk the marker stands and
\* however many markers were removed before it
C19_PageEndsBeforeMarker ==
    [][(pc = "calc_match" /\ Len(pages') = Len(pages) + 1) =>
          pages'[Len(pages')].end = Len(alltext') - 1]_vars

\* the second marker of the second chunk has closed the second page, after
\* a marker and text in the first chunk
C19_Witness ==
    /\ pc = "calc_match"
    /\ frame.ci = 2
    /\ FindIter(data[1].text) # <<>>
    /\ Len(data[1].text) > Len(Marker1)
    /\ frame.remove_gaps > 0
    /\ Len(pages) = 2
    /\ alltext # <<>>
    /\ pages[2].end = Len(alltext) - 1

\* _adjust_borders has changed no range yet
Unadjusted ==
    \/ pc \in {"constructed", "calc_chunk", "calc_match"}
    \/ pc = "adjust" /\ frame.k = 1

\* C20: as _calculate records them, every page range but the first starts
\* one past the end recorded for the page before it
C20_StartFollowsPreviousEnd ==
    Unadjusted =>
        \A k \in 2..Len(pages) : pages[k].start = pages[k - 1].end + 1

RECURSIVE KeptFrom(_, _, _)
\* what text holds from offset p on, outside the matches ms
KeptFrom(text, ms, p) ==
    IF ms = <<>> THEN SliceFrom(text, p)
    ELSE Slice(text, p, Head(ms).start) \o KeptFrom(text, Tail(ms), Head(ms).end)

\* text with every marker match (token and the spaces after it) removed
WithoutMarkers(text) == KeptFrom(text, FindIter(text), 0)

\* the section of the chunk is not null
HasSection(chunk) == chunk.section # None

RECURSIVE SectionsAfter(_, _)
\* the section ranges of chunks when before is the text of the chunks ahead
\* of them: one per chunk whose section is not null, from the length of the
\* text before the chunk to the offset of the newline after the chunk's text
SectionsAfter(chunks, before) ==
    IF chunks = <<>> THEN <<>>
    ELSE LET body == before \o WithoutMarkers(Head(chunks).text)
         IN  IF HasSection(Head(chunks))
             THEN <<[name  |-> Head(chunks).section,
                     start |-> Len(before),
                     end   |-> Len(body)]>>
                  \o SectionsAfter(Tail(chunks), Append(body, NL))
             ELSE SectionsAfter(Tail(chunks), body)

\* _calculate has ended and _adjust_borders has changed no range yet
Calculated == pc = "adjust" /\ frame.k = 1

\* C21: _calculate records one section range per chunk whose section is not
\* null, the empty string included, in chunk order, from the length of the
\* text before the chunk to the offset of the newline appended after the
\* chunk's text; a chunk with a null section records none and gets no newline
C21_SectionPerNonNullChunk ==
    Calculated => sections = SectionsAfter(data, <<>>)

RECURSIVE TextOf(_)
\* the chunk texts without their markers, in order, each followed by a
\* newline when the chunk has a section
TextOf(chunks) ==
    IF chunks = <<>> THEN <<>>
    ELSE WithoutMarkers(Head(chunks).text)
         \o (IF HasSection(Head(chunks)) THEN <<NL>> ELSE <<>>)
         \o TextOf(Tail(chunks))

\* C22: the text is the concatenation of the chunk texts without their
\* marker matches, each followed by one newline exactly when the chunk has a
\* section, and between two chunks pivot is the length of the text
C22_TextIsChunksWithoutMarkers ==
    /\ pc = "calc_chunk" =>
           /\ frame.pivot = Len(alltext)
           /\ alltext = TextOf(SubSeq(data, 1, frame.ci - 1))
    /\ Calculated => alltext = TextOf(data)

\* the offsets range r holds
OffsetsOf(r) == r.start..r.end

\* C30: in the output of build() the section ranges are pairwise disjoint
\* and in document order: each ends before the next one starts
C30_SectionsDisjointInOrder ==
    pc = "returned" =>
        /\ \A k \in 1..(Len(output.sections) - 1) :
               output.sections[k].end < output.sections[k + 1].start
        /\ \A j, k \in 1..Len(output.sections) :
               j # k => OffsetsOf(output.sections[j])
                            \cap OffsetsOf(output.sections[k]) = {}

\* build() has returned two section ranges, the first of a chunk with an
\* empty text
C30_Witness ==
    /\ pc = "returned"
    /\ Len(data) = 2
    /\ data[1].text = <<>>
    /\ Len(output.sections) = 2

(***************************************************************************)
(* Properties of WikiParser.parse()                                        *)
(***************************************************************************)

\* the constructor accepts the arguments
ValidArgs ==
    /\ parser.args.rawtexts \notin {NoneList, <<>>}
    /\ parser.args.title \notin {None, <<>>}

\* li starts with the page keyword and what follows it, stripped, is no
\* page info
BadKeywordLine(li) ==
    /\ Len(li) >= Len(PagekwInput)
    /\ SubSeq(li, 1, Len(PagekwInput)) = PagekwInput
    /\ LET info == Strip(SubSeq(li, Len(PagekwInput) + 1, Len(li)))
       IN  \/ info = <<>>
           \/ \E k \in 1..Len(info) :
                /\ info[k] \notin PageDigits
                /\ ~(k = Len(info) /\ k > 1 /\ info[k] \in PageSuffix)

\* the lines of the k-th page given to the constructor
RawLines(k) == SplitLines(parser.args.rawtexts[k])

\* the numbers (from 1) of the pages that hold a bad keyword line
BadPages ==
    {k \in 1..Len(parser.args.rawtexts) :
        \E n \in 1..Len(RawLines(k)) : BadKeywordLine(RawLines(k)[n])}

FirstBadPage == CHOOSE k \in BadPages : \A m \in BadPages : k <= m

\* C8: if a line starts with the page keyword and its stripped remainder is
\* not digits with an optional r or v, parse() goes no further than the
\* first page that holds such a line, raises an error that names the number
\* of that page and the title, and returns no chunks
C8_BadPageInfoIsFatal ==
    (ValidArgs /\ BadPages # {}) =>
        /\ result = NoResult
        /\ pc \in {"wp_new", "wp_constructed", "cleaning", "wp_raised"}
        /\ pc = "cleaning" => parser.i <= FirstBadPage
        /\ pc = "wp_raised" =>
               exc = ValueError(FirstBadPage, parser.args.title)

\* parse() raised on a bad keyword line of the second page, the first page
\* having some line
C8_Witness ==
    /\ pc = "wp_raised"
    /\ ValidArgs
    /\ BadPages = {2}
    /\ RawLines(1) # <<>>
    /\ exc = ValueError(2, <<"T">>)

\* the last element of a list
Last(ls) == ls[Len(ls)]

\* the warnings of a kind
WarningsOf(kind) == {k \in 1..Len(warnings) : warnings[k].kind = kind}

\* parse() came to its end: it returned or raised
ParseEnded == pc \in {"parsed", "wp_raised"}

\* C10: when the last line of the document is a title line, parse() emits
\* one "No text in section" warning, raises nothing and returns chunks whose
\* last is {section: that title, text: ''}
C10_TitleLastGivesEmptyText ==
    (ParseEnded /\ parser.lines # <<>> /\ IsTitle(Last(parser.lines))) =>
        /\ pc = "parsed"
        /\ exc = NoExc
        /\ Cardinality(WarningsOf("no_text")) = 1
        /\ result.returned
        /\ result.chunks # <<>>
        /\ Last(result.chunks) =
               [section |-> StripChars(Last(parser.lines), {TitleStrip, SP}),
                text |-> <<>>]

\* C11: when the constructor accepts the arguments and every line that
\* starts with the page keyword carries page info, parse() raises nothing:
\* it never ends in an exception, whatever else the pages hold (empty
\* pages, blank lines, a title followed by blank lines only)
C11_ParseNeverRaises ==
    (ValidArgs /\ BadPages = {}) => pc # "wp_raised"

\* the constructor was called and has ended
Constructed == pc # "wp_new"

\* C12: the constructor raises ValueError for a page list that is None or
\* empty, else for a title that is None or empty (the page list is checked
\* first); otherwise it stores both arguments as given.  After a rejection
\* nothing is stored, nothing is parsed, nothing is printed
C12_ConstructorValidates ==
    Constructed =>
        LET args == parser.args
            rejected == /\ pc = "wp_raised"
                        /\ rawtexts = <<>>
                        /\ title = None
                        /\ parser = NewParser(args.rawtexts, args.title)
                        /\ warnings = <<>>
                        /\ result = NoResult
        IN  /\ args.rawtexts \in {NoneList, <<>>} =>
                  rejected /\ exc = ConstructorError("rawtexts")
            /\ (args.rawtexts \notin {NoneList, <<>>}
                  /\ args.title \in {None, <<>>}) =>
                  rejected /\ exc = ConstructorError("title")
            /\ ValidArgs =>
                  /\ rawtexts = args.rawtexts
                  /\ title = args.title
                  /\ exc \notin {ConstructorError("rawtexts"),
                                 ConstructorError("title")}

\* the constructor rejected arguments of which both are empty, naming the
\* page list
C12_Witness ==
    /\ pc = "wp_raised"
    /\ parser.args.rawtexts = <<>>
    /\ parser.args.title = <<>>
    /\ exc = ConstructorError("rawtexts")

\* the stripped lines of ls that are not blank, in order
NonBlank(ls) ==
    SelectSeq([k \in 1..Len(ls) |-> Strip(ls[k])], LAMBDA l : l # <<>>)

\* what the docstring of striplines describes, for ls with a line that is
\* not blank: every line stripped, the blank lines before the first and
\* after the last such line dropped, a run of blank lines between two of
\* them kept as one blank line
TrimmedLines(ls) ==
    LET st == [k \in 1..Len(ls) |-> Strip(ls[k])]
        solid == {k \in 1..Len(st) : st[k] # <<>>}
        kept == solid \cup
                {k \in 1..Len(st) :
                    /\ \E a \in solid : a < k
                    /\ \E b \in solid : b > k
                    /\ st[k - 1] # <<>>}
        nth(n) == CHOOSE k \in kept : Cardinality({j \in kept : j <= k}) = n
    IN  [n \in 1..Cardinality(kept) |-> st[nth(n)]]

\* the lines of every page _cleaner returned, trimmed, in one list
TrimmedPages ==
    Concat([k \in 1..Len(parser.groupslines) |->
              TrimmedLines(parser.groupslines[k].lines)])

\* C16: striplines removes blank lines only: of every page (each holds a
\* line that is not blank, or striplines raised) the lines that are not
\* blank come out stripped, in the same order and as many times as they
\* went in; blank lines go at both ends only and a run of blank lines
\* between two other lines stays as one blank entry
C16_StripLinesDropsOnlyBlanks ==
    pc = "stripped" =>
        /\ NonBlank(parser.lines) =
               Concat([k \in 1..Len(parser.groupslines) |->
                         NonBlank(parser.groupslines[k].lines)])
        /\ parser.lines = TrimmedPages

\* the title lines among ls
TitlesIn(ls) == SelectSeq(ls, IsTitle)

\* C17: a page boundary starts no chunk: parse() returns at most one chunk
\* more than there are title lines, and for a document without title lines
\* one chunk without section whose text is the lines of all pages (page
\* marker tokens among them), in page order then line order, joined with
\* single spaces
C17_PagesJoinIntoOneChunk ==
    pc = "parsed" =>
        /\ Len(result.chunks) <= Len(TitlesIn(TrimmedPages)) + 1
        /\ TitlesIn(TrimmedPages) = <<>> =>
               result.chunks =
                   <<[section |-> None, text |-> JoinText(TrimmedPages)]>>

\* the section names of the chunks that have one, in order
SectionsOf(chunks) ==
    LET named == SelectSeq(chunks, HasSection)
    IN  [k \in 1..Len(named) |-> named[k].section]

\* the names of the title lines among ls, in order
TitleNames(ls) ==
    LET ts == TitlesIn(ls)
    IN  [k \in 1..Len(ts) |-> StripChars(ts[k], {TitleStrip, SP})]

\* C23: in the result of parse() every title line of the document is the
\* section name of exactly one chunk, in document order, also when title
\* lines are adjacent, and only a body before the first title has a null
\* section
C23_EveryTitleNamesOneChunk ==
    pc = "parsed" =>
        /\ SectionsOf(result.chunks) = TitleNames(parser.lines)
        /\ \A k \in 2..Len(result.chunks) : HasSection(result.chunks[k])
        /\ (result.chunks # <<>> /\ ~HasSection(result.chunks[1])) =>
               ~IsTitle(parser.lines[1])

(***************************************************************************)
(* Malformed marker tokens, in WikiParser and in OffsetsBuilder            *)
(***************************************************************************)

MalformedChunkPieces == {MalformedMarker, Marker1, <<SP>>, <<"a">>}

MalformedRawPieces ==
    {MalformedMarker, <<NL>>, <<"x">>, <<"2">>, PagekwInput, <<"=", "=">>}

\* OffsetsBuilder(data) on chunks that may hold malformed tokens
InitOBMalformed ==
    /\ IsChunkSequence(MalformedChunkPieces)
    /\ alltext = <<>>
    /\ sections = <<>>
    /\ pages = <<>>
    /\ frame = NoFrame
    /\ output = NoOutput
    /\ earlier = NoOutput
    /\ pc = "constructed"
    /\ exc = NoExc
    /\ WPIdle
    /\ firstpass = NoFirstPass
    /\ FetchIdle
    /\ ConvertIdle
    /\ ExportIdle

\* WikiParser(rawtexts, title) on pages that may hold malformed tokens
InitWPMalformed ==
    /\ \E c \in 1..MaxPages :
         \E ps \in PieceSeqs(MalformedRawPieces, MaxRawPieces) :
           \E cuts \in Cuts(c, Len(ps)) :
             parser = NewParser(PageSeq(ps, c, cuts), <<"T">>)
    /\ rawtexts = <<>>
    /\ title = None
    /\ warnings = <<>>
    /\ result = NoResult
    /\ pc = "wp_new"
    /\ exc = NoExc
    /\ OBIdle
    /\ firstpass = NoFirstPass
    /\ FetchIdle
    /\ ConvertIdle
    /\ ExportIdle

\* either component, each on its own input
SpecMarker ==
    (InitWPMalformed \/ InitOBMalformed) /\ [][NextWP \/ NextOB]_vars

\* s holds the malformed token
HoldsMalformed(s) == ContainsSeq(s, MalformedMarker)

\* a line of a page given to WikiParser holds the malformed token
RawHoldsMalformed ==
    \E k \in 1..Len(parser.args.rawtexts) :
        \E n \in 1..Len(RawLines(k)) : HoldsMalformed(RawLines(k)[n])

\* a chunk text given to OffsetsBuilder holds the malformed token
DataHoldsMalformed ==
    \E k \in 1..Len(data) : HoldsMalformed(data[k].text)

\* a WikiParser call is running or has ended; an OffsetsBuilder call
InWikiParser ==
    pc \in {"wp_new", "wp_constructed", "cleaning", "cleaned", "stripped",
            "parsed", "wp_raised"}
InOffsetsBuilder == ~InWikiParser

\* the exception names a page and the title: the format error of line 187
IsFormatError(e) == e.type = "ValueError" /\ DOMAIN e = {"type", "page", "title"}

\* C9 as stated: a malformed inline token raises a format error that names
\* page and title, in a raw page line given to WikiParser as in a chunk text
\* given to OffsetsBuilder, and is never copied into an output text
C9_MalformedTokenIsFatal ==
    /\ (InWikiParser /\ ParseEnded /\ RawHoldsMalformed) =>
           /\ pc = "wp_raised"
           /\ IsFormatError(exc)
    /\ (InOffsetsBuilder /\ pc \in {"returned", "raised"}
          /\ DataHoldsMalformed) =>
           /\ pc = "raised"
           /\ IsFormatError(exc)
    /\ pc = "parsed" =>
           \A k \in 1..Len(result.chunks) :
               ~HoldsMalformed(result.chunks[k].text)
    /\ pc = "returned" => ~HoldsMalformed(output.text)

\* C9 as amended: a line that starts with the page keyword and carries no
\* page info raises the format error naming page and title; the malformed
\* token itself raises no format error in either component: parse() keeps
\* it in the chunks it returns and build() copies it into the text it returns
C9_OnlyKeywordLinesAreFatal ==
    /\ (InWikiParser /\ ParseEnded /\ BadPages # {}) =>
           /\ pc = "wp_raised"
           /\ exc = ValueError(FirstBadPage, parser.args.title)
    /\ (InWikiParser /\ BadPages = {}) => ~IsFormatError(exc)
    /\ (pc = "parsed" /\ RawHoldsMalformed) =>
           \E k \in 1..Len(result.chunks) :
               \/ HoldsMalformed(result.chunks[k].text)
               \/ HoldsMalformed(result.chunks[k].section)
    /\ InOffsetsBuilder => ~IsFormatError(exc)
    /\ (pc = "returned" /\ DataHoldsMalformed) => HoldsMalformed(output.text)

\* parse() returned chunks, the text of one holding the malformed token that
\* stood in a line of the second page
C9_Witness ==
    /\ pc = "parsed"
    /\ Len(parser.args.rawtexts) = 2
    /\ \E n \in 1..Len(RawLines(2)) : HoldsMalformed(RawLines(2)[n])
    /\ \E k \in 1..Len(result.chunks) : HoldsMalformed(result.chunks[k].text)

(***************************************************************************)
(* The punctuation balance check of _cleaner                               *)
(***************************************************************************)

PunctRawPieces == {<<NL>>, <<"x">>, <<"(">>, <<")">>, <<"[">>, <<QUOTE>>}

\* WikiParser(rawtexts, title) on pages that hold punctuation delimiters
InitPunct ==
    /\ \E c \in 1..MaxPages :
         \E ps \in PieceSeqs(PunctRawPieces, MaxRawPieces) :
           \E cuts \in Cuts(c, Len(ps)) :
             parser = NewParser(PageSeq(ps, c, cuts), <<"T">>)
    /\ rawtexts = <<>>
    /\ title = None
    /\ warnings = <<>>
    /\ result = NoResult
    /\ pc = "wp_new"
    /\ exc = NoExc
    /\ OBIdle
    /\ firstpass = NoFirstPass
    /\ FetchIdle
    /\ ConvertIdle
    /\ ExportIdle

SpecPunct == InitPunct /\ [][NextWP]_vars

\* the balance check reads the line: it is neither dropped, nor empty, nor
\* a page keyword line
IsScanned(li) ==
    /\ li \notin {<<RTL>>, <<LTR>>, <<>>}
    /\ ~(Len(li) >= Len(PagekwInput)
         /\ SubSeq(li, 1, Len(PagekwInput)) = PagekwInput)

IsDelimiter(ch) == ch \in PunctOpening \cup PunctClosing \cup PunctEqual

\* the delimiters of the k-th page given to the constructor, in reading
\* order, each with the number of its page
DelimsOfPage(k) ==
    Concat([n \in 1..Len(RawLines(k)) |->
              IF IsScanned(RawLines(k)[n])
              THEN LET ds == SelectSeq(RawLines(k)[n], IsDelimiter)
                   IN  [m \in 1..Len(ds) |-> [page |-> k, ch |-> ds[m]]]
              ELSE <<>>])

\* the delimiters of the whole document
Delims ==
    Concat([k \in 1..Len(parser.args.rawtexts) |-> DelimsOfPage(k)])

OnlyOpeners == \A k \in 1..Len(Delims) : Delims[k].ch \in PunctOpening

\* _cleaner has ended
CleanerDone == pc \notin {"wp_new", "wp_constructed", "cleaning"}

IsClosingMissing(w) == w.kind = "closing_missing"

IsPunctWarning(w) ==
    w.kind \in {"closing_missing", "opening_missing", "dont_match"}

ClosingWarnings == SelectSeq(warnings, IsClosingMissing)

\* C13: "closing character missing" is printed only at the end of the
\* document, once per entry left on the stack, naming the page on which the
\* entry was pushed: for a document whose delimiters are all openers, one
\* warning per opener with the page that holds it (one warning for a single
\* "("); _cleaner raises nothing, it goes through all pages
C13_ClosingMissingPerStackEntry ==
    /\ pc = "cleaning" => ClosingWarnings = <<>>
    /\ CleanerDone =>
         /\ parser.i = Len(parser.args.rawtexts) + 1
         /\ ClosingWarnings =
                [k \in 1..Len(parser.stack) |->
                   Warning("closing_missing", parser.stack[k].page,
                           <<parser.stack[k].ch>>)]
         /\ OnlyOpeners =>
                ClosingWarnings =
                    [k \in 1..Len(Delims) |->
                       Warning("closing_missing", Delims[k].page,
                               <<Delims[k].ch>>)]

\* _cleaner ended on a document of two pages with an opener on each of
\* them, with two warnings
C13_Witness ==
    /\ CleanerDone
    /\ Delims = <<[page |-> 1, ch |-> "("], [page |-> 2, ch |-> "["]>>
    /\ Len(ClosingWarnings) = 2

\* the document holds two delimiters: an opener and, on a later page, its
\* closer
OpenerClosedOnLaterPage ==
    /\ Len(Delims) = 2
    /\ Delims[1].ch \in PunctOpening
    /\ Delims[2].ch = PunctPairs[Delims[1].ch]
    /\ Delims[1].page < Delims[2].page

\* C14: the stack is not reset between pages: at the first line of a page
\* the openers of all earlier pages are still on it (document of openers
\* only), and an opener closed by its closer on a later page gives no
\* punctuation warning and leaves the stack empty
C14_StackSpansPages ==
    /\ (pc = "cleaning" /\ parser.j = 1 /\ OnlyOpeners) =>
           parser.stack =
               SelectSeq(Delims, LAMBDA d : d.page < PageNumber(parser.i))
    /\ (CleanerDone /\ OpenerClosedOnLaterPage) =>
           /\ SelectSeq(warnings, IsPunctWarning) = <<>>
           /\ parser.stack = <<>>

\* parse() returned for "(" on page 1 and ")" on page 2, nothing printed
C14_Witness ==
    /\ pc = "parsed"
    /\ Delims = <<[page |-> 1, ch |-> "("], [page |-> 2, ch |-> ")"]>>
    /\ warnings = <<>>

(***************************************************************************)
(* _cleaner run on what _cleaner returned                                  *)
(***************************************************************************)

\* _cleaner is called again, on the pages it has just returned: lines
\* 164-167 for the second run
CleanAgain ==
    /\ pc = "cleaned"
    /\ ~firstpass.done
    /\ firstpass' = [done |-> TRUE, out |-> parser.out, warns |-> warnings]
    /\ parser' = [parser EXCEPT
                    !.groupslines = [k \in 1..Len(parser.out) |->
                                       parser.out[k].lines],
                    !.i = 1, !.j = 1, !.aux = <<>>, !.out = <<>>,
                    !.stack = <<>>]
    /\ warnings' = <<>>
    /\ pc' = "cleaning"
    /\ UNCHANGED <<rawtexts, title, result, exc>>
    /\ UNCHANGED <<obVars, ehVars, ftVars>>

SanitizeRawPieces ==
    {<<NL>>, <<SP>>, <<TAB>>, <<"x">>, <<WAW>>, <<QUOTE>>, <<"LDQUOTE">>}

\* WikiParser(rawtexts, title) on pages that hold what the sanitising steps
\* change
InitSanitize ==
    /\ \E c \in 1..MaxPages :
         \E ps \in PieceSeqs(SanitizeRawPieces, MaxRawPieces) :
           \E cuts \in Cuts(c, Len(ps)) :
             parser = NewParser(PageSeq(ps, c, cuts), <<"T">>)
    /\ rawtexts = <<>>
    /\ title = None
    /\ warnings = <<>>
    /\ result = NoResult
    /\ pc = "wp_new"
    /\ exc = NoExc
    /\ OBIdle
    /\ firstpass = NoFirstPass
    /\ FetchIdle
    /\ ConvertIdle
    /\ ExportIdle

NextSanitize ==
    \/ Construct
    \/ ParseBegin
    \/ CleanLine
    \/ PageEnd
    \/ CleanerEnd
    \/ CleanAgain

SpecSanitize == InitSanitize /\ [][NextSanitize]_vars

\* C15: sanitizing is idempotent on the lines: _cleaner run on the pages
\* _cleaner returned (lines that hold no BOM, no double prime, no quotation
\* mark variant and no run of spaces or tabs) returns the same pages
C15_SanitizeTwiceIsOnce ==
    (pc = "cleaned" /\ firstpass.done) => parser.out = firstpass.out

(***************************************************************************)
(* ExportHandler.export and the script wiki_to_json                        *)
(***************************************************************************)

\* what the wiki and WikiParser make of a scan title when _export_title
\* asks for it: the transcription is exported, or one of the raise
\* statements of lines 225-269 is reached
ScanFates ==
    {"exported", "RequestException", "LookupError", "no text found",
     "AttributeError", "page is empty", "Error in WikiParser"}

\* the answers to the login requests, lines 133-152
LoginFates == {"Success", "RequestException", "Login failed"}

\* the answers to the query for the index of scans, lines 173-180
IndexFates == {"ok", "RequestException", "Not expected json structure"}

ExportError(what, name) == [type |-> what, title |-> name]

\* the dict _export_title returns, line 271; the content stands for the
\* chunks parse() returned
Exported(name) == [title |-> name, content |-> "outjson"]

\* _export_title(title): [raised, val]
ExportTitleCall(name) ==
    LET fate == handler.wiki.scans[name]
    IN  IF fate = "exported" THEN Returned(Exported(name))
        ELSE [raised |-> TRUE, val |-> ExportError(fate, name)]

\* export() is called: _login, lines 304-307
Login ==
    /\ pc = "eh_new"
    /\ IF handler.wiki.login = "Success"
       THEN /\ pc' = "eh_logged_in"
            /\ UNCHANGED exc
       ELSE /\ pc' = "eh_raised"
            /\ exc' = ExportError(handler.wiki.login, 0)
    /\ UNCHANGED <<handler, files>>
    /\ UNCHANGED <<obVars, wpVars, firstpass, ftVars>>

\* one title is asked for: lines 310-312
ExportSingle ==
    /\ pc = "eh_logged_in"
    /\ handler.title.given
    /\ LET r == ExportTitleCall(handler.title.name)
       IN  IF r.raised
           THEN /\ pc' = "eh_raised"
                /\ exc' = r.val
                /\ UNCHANGED handler
           ELSE /\ pc' = "eh_returned"
                /\ handler' = [handler EXCEPT
                                 !.out = <<r.val>>,
                                 !.data = [returned |-> TRUE,
                                           val |-> <<r.val>>],
                                 !.w = 1]
                /\ UNCHANGED exc
    /\ UNCHANGED files
    /\ UNCHANGED <<obVars, wpVars, firstpass, ftVars>>

\* no title is asked for: the titles of the index of scans, lines 315-318
GetTitlesScans ==
    /\ pc = "eh_logged_in"
    /\ ~handler.title.given
    /\ IF handler.wiki.index = "ok"
       THEN /\ handler' = [handler EXCEPT
                             !.pages = [k \in 1..Len(handler.wiki.scans) |->
                                          k],
                             !.k = 1, !.out = <<>>]
            /\ pc' = "eh_exporting"
            /\ UNCHANGED exc
       ELSE /\ pc' = "eh_raised"
            /\ exc' = ExportError(handler.wiki.index, 0)
            /\ UNCHANGED handler
    /\ UNCHANGED files
    /\ UNCHANGED <<obVars, wpVars, firstpass, ftVars>>

\* ExportTitle with a title that fails left out of the list
ExportTitleSkipsFailed ==
    /\ pc = "eh_exporting"
    /\ handler.k <= Len(handler.pages)
    /\ LET r == ExportTitleCall(handler.pages[handler.k])
       IN  handler' = [handler EXCEPT
                         !.out = IF r.raised THEN @ ELSE Append(@, r.val),
                         !.k = @ + 1]
    /\ UNCHANGED <<pc, exc, files>>
    /\ UNCHANGED <<obVars, wpVars, firstpass, ftVars>>

\* one element of the list comprehension of line 321
ExportTitle ==
    /\ pc = "eh_exporting"
    /\ handler.k <= Len(handler.pages)
    /\ LET r == ExportTitleCall(handler.pages[handler.k])
       IN  IF r.raised
           THEN /\ pc' = "eh_raised"
                /\ exc' = r.val
                /\ UNCHANGED handler
           ELSE /\ handler' = [handler EXCEPT !.out = Append(@, r.val),
                                              !.k = @ + 1]
                /\ UNCHANGED <<pc, exc>>
    /\ UNCHANGED files
    /\ UNCHANGED <<obVars, wpVars, firstpass, ftVars>>

\* after the last title: line 323
ExportReturn ==
    /\ pc = "eh_exporting"
    /\ handler.k > Len(handler.pages)
    /\ handler' = [handler EXCEPT
                     !.data = [returned |-> TRUE, val |-> handler.out],
                     !.w = 1]
    /\ pc' = "eh_returned"
    /\ UNCHANGED <<exc, files>>
    /\ UNCHANGED <<obVars, wpVars, firstpass, ftVars>>

\* wiki_to_json: export() raised, lines 74-76
MainFatal ==
    /\ pc = "eh_raised"
    /\ handler' = [handler EXCEPT !.exit = 1]
    /\ pc' = "exit"
    /\ UNCHANGED <<exc, files>>
    /\ UNCHANGED <<obVars, wpVars, firstpass, ftVars>>

\* the file of a name with the content given
FileWritten(name, content) ==
    {f \in files : f.name # name} \cup {[name |-> name, content |-> content]}

\* wiki_to_json: one scan of the loop of lines 80-87: the file is opened,
\* build() returns and its output is written, or build() raises (it does
\* for some contents) and the script ends with the file left empty
WriteScan ==
    /\ pc = "eh_returned"
    /\ handler.w <= Len(handler.data.val)
    /\ LET scan == handler.data.val[handler.w]
       IN  \E built \in BOOLEAN :
             IF built
             THEN /\ files' = FileWritten(scan.title, "out")
                  /\ handler' = [handler EXCEPT !.w = @ + 1]
                  /\ UNCHANGED <<pc, exc>>
             ELSE /\ files' = FileWritten(scan.title, "")
                  /\ handler' = [handler EXCEPT !.exit = 1]
                  /\ pc' = "exit"
                  /\ exc' = IndexError
    /\ UNCHANGED <<obVars, wpVars, firstpass, ftVars>>

\* wiki_to_json: after the last scan
MainEnd ==
    /\ pc = "eh_returned"
    /\ handler.w > Len(handler.data.val)
    /\ handler' = [handler EXCEPT !.exit = 0]
    /\ pc' = "exit"
    /\ UNCHANGED <<exc, files>>
    /\ UNCHANGED <<obVars, wpVars, firstpass, ftVars>>

\* scan titles in the index of the wiki
MaxTitles == 3

\* the sequences of fates of up to n scans
RECURSIVE FateSeqs(_)
FateSeqs(n) ==
    IF n = 0 THEN {<<>>}
    ELSE LET shorter == FateSeqs(n - 1)
         IN  shorter \cup
             {Append(fs, f) : fs \in {g \in shorter : Len(g) = n - 1},
                              f \in ScanFates}

\* the script calls handler.export(args.title), line 73
InitExport ==
    /\ \E scans \in FateSeqs(MaxTitles) :
         \E login \in LoginFates :
           \E index \in IndexFates :
             \E t \in {NoTitle} \cup
                      {[given |-> TRUE, name |-> k] : k \in 1..Len(scans)} :
               handler = [NoHandler EXCEPT
                            !.title = t,
                            !.wiki = [login |-> login, index |-> index,
                                      scans |-> scans]]
    /\ files = {}
    /\ pc = "eh_new"
    /\ exc = NoExc
    /\ OBIdle
    /\ WPIdle
    /\ firstpass = NoFirstPass
    /\ FetchIdle
    /\ ConvertIdle

NextExport ==
    \/ Login
    \/ ExportSingle
    \/ GetTitlesScans
    \/ ExportTitle
    \/ ExportReturn
    \/ MainFatal
    \/ WriteScan
    \/ MainEnd

SpecExport == InitExport /\ [][NextExport]_vars

\* export() is called without a title
Batch == ~handler.title.given

\* the titles of the index whose export fails
FailingScans ==
    {k \in 1..Len(handler.wiki.scans) : handler.wiki.scans[k] # "exported"}

\* C18: when export() is called without a title and the export of some
\* title fails, export() returns nothing, for no title: it ends in the
\* exception of the first failing title (or of the login or the index
\* query), the script then exits with status 1, and no file is ever written
C18_BatchIsAllOrNothing ==
    (Batch /\ FailingScans # {}) =>
        /\ handler.data = NotReturned
        /\ files = {}
        /\ pc \in {"eh_new", "eh_logged_in", "eh_exporting", "eh_raised",
                   "exit"}
        /\ pc = "exit" => handler.exit = 1
        /\ (pc \in {"eh_raised", "exit"}
              /\ handler.wiki.login = "Success"
              /\ handler.wiki.index = "ok") =>
               LET first == CHOOSE k \in FailingScans :
                               \A m \in FailingScans : k <= m
               IN  /\ exc = ExportError(handler.wiki.scans[first], first)
                   /\ Len(handler.out) = first - 1

\* the script has exited after the second of two titles failed in
\* WikiParser, the first having been exported
C18_Witness ==
    /\ pc = "exit"
    /\ Batch
    /\ handler.wiki.scans = <<"exported", "Error in WikiParser">>
    /\ handler.out = <<Exported(1)>>
    /\ handler.exit = 1
    /\ files = {}

(***************************************************************************)
(* build() called a second time on the same builder                        *)
(***************************************************************************)

\* build() is called again, line 266: __init__ is not run again, so
\* self.alltext, self.sections and self.pages keep what the first call left
BuildAgain ==
    /\ pc = "returned"
    /\ earlier = NoOutput
    /\ earlier' = output
    /\ pc' = "constructed"
    /\ UNCHANGED <<data, alltext, sections, pages, frame, output, exc>>
    /\ UNCHANGED <<wpVars, firstpass, ehVars, ftVars>>

NextRebuild ==
    \/ NextOB
    \/ BuildAgain

SpecRebuild == InitOB /\ [][NextRebuild]_vars

\* C26: a second call of build() on the same builder returns the text,
\* sections and pages the first call returned
C26_BuildTwiceSameOutput ==
    (pc = "returned" /\ earlier # NoOutput) => output = earlier

\* the line the next step of the cleaner reads
CurrentLine == parser.groupslines[parser.i][parser.j]

\* the next step of the cleaner scans a line whose only delimiter is the
\* paired closer c
ScansOneCloser(c) ==
    /\ pc = "cleaning"
    /\ parser.i <= Len(parser.groupslines)
    /\ parser.j <= Len(parser.groupslines[parser.i])
    /\ IsScanned(CurrentLine)
    /\ SelectSeq(CurrentLine, IsDelimiter) = <<c>>

\* the top entry of the stack is the opener that c closes
TopOpens(c) ==
    /\ parser.stack # <<>>
    /\ Last(parser.stack).ch \in PunctOpening
    /\ PunctPairs[Last(parser.stack).ch] = c

\* C24: the scan of a paired closer prints no warning if and only if the
\* stack is not empty and its top entry is the opener the closer matches;
\* an empty stack is left as it is, of a stack that is not empty exactly the
\* top entry is removed, matching or not, and nothing is raised
C24_CloserPopsOneEntry ==
    [][\A c \in PunctClosing :
         ScansOneCloser(c) =>
           /\ (warnings' = warnings) <=> TopOpens(c)
           /\ parser.stack = <<>> => parser'.stack = <<>>
           /\ parser.stack # <<>> =>
                  parser'.stack =
                      SubSeq(parser.stack, 1, Len(parser.stack) - 1)
           /\ pc' = "cleaning"
           /\ exc' = exc]_vars

\* a closer has taken from the stack an opener it does not match
C24_Witness ==
    /\ pc = "cleaning"
    /\ parser.stack = <<>>
    /\ \E k \in 1..Len(warnings) : warnings[k].kind = "dont_match"

\* a waw directly followed by a double quote
WawQuote == <<WAW, QUOTE>>

\* line li of the page before the waw step: its quotation marks normalised
BeforeWawStep(li) == MapChars(li, QuotationMarks, QUOTE)

\* li with one space put between every waw and the double quote that
\* directly follows it
SpaceInserted(li) == ReplaceSeq(li, WawQuote, <<WAW, SP, QUOTE>>)

\* the lines of the k-th page the cleaner was run on: of the page given to
\* the constructor, or of the page its first run returned
CleanerInput(k) ==
    IF firstpass.done THEN firstpass.out[k].lines ELSE RawLines(k)

\* C25: the waw step only inserts a space: in every line returned by the
\* cleaner no waw is directly followed by a double quote, the line is the
\* line before the step with one space inserted after each such waw (runs
\* of spaces collapsed afterwards) and nothing removed or moved, and a
\* warning is printed for a line that held such a waw
C25_WawStepOnlyInsertsSpace ==
    pc = "cleaned" =>
        \A k \in 1..Len(parser.out) :
            \A n \in 1..Len(parser.out[k].lines) :
                LET before == BeforeWawStep(CleanerInput(k)[n])
                    after == parser.out[k].lines[n]
                IN  /\ ~ContainsSeq(after, WawQuote)
                    /\ after = CollapseSpaces(SpaceInserted(before))
                    /\ ContainsSeq(before, WawQuote) =>
                           \E w \in 1..Len(warnings) :
                               warnings[w].kind = "waw"

\* b closes a: a is an opener and b its closer, or both are the same
\* self-paired delimiter
Closes(a, b) ==
    \/ a \in PunctOpening /\ PunctPairs[a] = b
    \/ a \in PunctEqual /\ a = b

RECURSIVE Reduced(_)
\* cs without its matched pairs: a delimiter directly followed by the one
\* that closes it is taken out, until there is no such pair
Reduced(cs) ==
    LET at == {k \in 1..(Len(cs) - 1) : Closes(cs[k], cs[k + 1])}
    IN  IF at = {} THEN cs
        ELSE LET k == CHOOSE k \in at : \A m \in at : k <= m
             IN  Reduced(SubSeq(cs, 1, k - 1) \o SubSeq(cs, k + 2, Len(cs)))

\* the delimiters of the document form a well-nested sequence
WellNested == Reduced([k \in 1..Len(Delims) |-> Delims[k].ch]) = <<>>

\* C29: for a document whose delimiters are well nested, wherever its lines
\* and pages end, the balance check prints no punctuation warning and
\* leaves the stack empty
C29_WellNestedIsSilent ==
    (CleanerDone /\ WellNested) =>
        /\ parser.stack = <<>>
        /\ \A k \in 1..Len(warnings) : ~IsPunctWarning(warnings[k])

\* the cleaner has ended on two pages that cut a quoted pair inside a pair
\* of parentheses
C29_Witness ==
    /\ CleanerDone
    /\ Delims = <<[page |-> 1, ch |-> "("], [page |-> 1, ch |-> QUOTE],
                  [page |-> 2, ch |-> QUOTE], [page |-> 2, ch |-> ")"]>>
    /\ parser.stack = <<>>

(***************************************************************************)
(* ExportHandler._export_title, page by page                               *)
(***************************************************************************)

\* the title asked for
ScanTitle == <<"T">>

\* what the wiki answers to the query for a page, in the order the code
\* looks at it: the request fails (line 225), the json holds no
\* query/pages (line 230), the page is missing (line 232), the json holds no
\* revisions/content (line 241), the xml holds no noinclude element (line
\* 251), or the page has a text
AnswerKinds ==
    {"RequestException", "LookupError pages", "missing",
     "LookupError revisions", "AttributeError", "page"}

\* soup.noinclude.text of the pages
PageTexts == {<<>>, <<SP>>, <<"x">>, <<"2">>, TitleLine(<<"A">>)}

Answers ==
    {[kind |-> k, text |-> <<>>] : k \in AnswerKinds \ {"page"}}
    \cup {[kind |-> "page", text |-> t] : t \in PageTexts}

Missing == [kind |-> "missing", text |-> <<>>]

\* the answer to the query for 'Page:<title>/<n>': a wiki of k pages reports
\* every page after the k-th as missing
Answer(n) == IF n <= Len(fetch.wiki) THEN fetch.wiki[n] ELSE Missing

FetchError(what, n) == [type |-> what, page |-> n]

\* _export_title(title, session, debug) is called: lines 212-213
ExportTitleBegin ==
    /\ pc = "et_new"
    /\ fetch' = [fetch EXCEPT !.npage = 0, !.texts = <<>>]
    /\ pc' = "et_fetching"
    /\ UNCHANGED <<exc, tsv>>
    /\ UNCHANGED <<obVars, wpVars, firstpass, ehVars>>

\* FetchPage going on to the next page when a page is empty
FetchPageSkipsEmpty ==
    /\ pc = "et_fetching"
    /\ LET n == fetch.npage + 1
           a == Answer(n)
           asked == [fetch EXCEPT !.npage = n, !.requested = Append(@, n)]
           raise(what) == /\ exc' = FetchError(what, n)
                          /\ pc' = "et_raised"
                          /\ fetch' = asked
       IN  IF a.kind \in {"RequestException", "LookupError pages",
                          "LookupError revisions", "AttributeError"}
           THEN raise(a.kind)
           ELSE IF a.kind = "missing"
           THEN IF n = 1
                THEN raise("no text found")
                ELSE /\ fetch' = asked
                     /\ pc' = "et_fetched"
                     /\ UNCHANGED exc
           ELSE /\ fetch' = IF Strip(a.text) = <<>> THEN asked
                            ELSE [asked EXCEPT !.texts = Append(@, a.text)]
                /\ UNCHANGED <<pc, exc>>
    /\ UNCHANGED tsv
    /\ UNCHANGED <<obVars, wpVars, firstpass, ehVars>>

\* one turn of the loop of lines 215-259
FetchPage ==
    /\ pc = "et_fetching"
    /\ LET n == fetch.npage + 1
           a == Answer(n)
           asked == [fetch EXCEPT !.npage = n, !.requested = Append(@, n)]
           raise(what) == /\ exc' = FetchError(what, n)
                          /\ pc' = "et_raised"
                          /\ fetch' = asked
       IN  IF a.kind \in {"RequestException", "LookupError pages",
                          "LookupError revisions", "AttributeError"}
           THEN raise(a.kind)
           ELSE IF a.kind = "missing"
           THEN IF n = 1
                THEN raise("no text found")
                ELSE /\ fetch' = asked
                     /\ pc' = "et_fetched"
                     /\ UNCHANGED exc
           ELSE IF Strip(a.text) = <<>>
           THEN raise("page is empty")
           ELSE /\ fetch' = [asked EXCEPT !.texts = Append(@, a.text)]
                /\ UNCHANGED <<pc, exc>>
    /\ UNCHANGED tsv
    /\ UNCHANGED <<obVars, wpVars, firstpass, ehVars>>

\* parser = WikiParser(texts, title), line 263: the constructor is called
CallWikiParser ==
    /\ pc = "et_fetched"
    /\ parser' = NewParser(fetch.texts, ScanTitle)
    /\ pc' = "wp_new"
    /\ UNCHANGED <<rawtexts, title, warnings, result, exc>>
    /\ UNCHANGED <<obVars, firstpass, ehVars, ftVars>>

\* parse() raised: lines 268-269 (the constructor, called outside the try,
\* is given a title and at least one text here and raises nothing)
ParseRaised ==
    /\ pc = "wp_raised"
    /\ "arg" \notin DOMAIN exc
    /\ exc' = FetchError("Error in WikiParser", 0)
    /\ pc' = "et_raised"
    /\ UNCHANGED wpVars
    /\ UNCHANGED <<obVars, firstpass, ehVars, ftVars>>

\* parse() returned: line 271
ExportTitleReturn ==
    /\ pc = "parsed"
    /\ pc' = "et_returned"
    /\ UNCHANGED <<exc, wpVars>>
    /\ UNCHANGED <<obVars, firstpass, ehVars, ftVars>>

\* pages of a title in the wiki
MaxScanPages == 3

\* before _export_title(title, session, debug) is called
InitFetch ==
    /\ \E wiki \in PieceSeqs(Answers, MaxScanPages) :
         fetch = [NoFetch EXCEPT !.wiki = wiki]
    /\ ConvertIdle
    /\ ExportIdle
    /\ OBIdle
    /\ WPIdle
    /\ firstpass = NoFirstPass
    /\ pc = "et_new"
    /\ exc = NoExc

NextFetch ==
    \/ ExportTitleBegin
    \/ FetchPage
    \/ CallWikiParser
    \/ NextWP
    \/ ParseRaised
    \/ ExportTitleReturn

SpecFetch == InitFetch /\ [][NextFetch]_vars

\* the number of the first page the wiki reports missing
FirstMissing ==
    CHOOSE n \in 1..(Len(fetch.wiki) + 1) :
        /\ Answer(n).kind = "missing"
        /\ \A m \in 1..(n - 1) : Answer(m).kind # "missing"

\* the query for page n is answered with a text that is not blank
HasText(n) == Answer(n).kind = "page" /\ Strip(Answer(n).text) # <<>>

\* the pages before the first missing one that give no text: the request
\* fails, the answer is not as expected, or the page is blank
FailingPages == {n \in 1..(FirstMissing - 1) : ~HasText(n)}

\* WikiParser(texts, title) has been called
ParserInvoked == DOMAIN parser # {}

\* _export_title has ended
ExportTitleEnded == pc \in {"et_returned", "et_raised"}

\* C27: _export_title asks for the pages 1, 2, 3, ... in this order and for
\* none after the first page reported missing; the parser is given the
\* texts of the pages before that page, in order; when page 1 is missing,
\* or a page asked for is blank, or a request fails, _export_title raises
\* and the parser is never invoked
C27_PagesInOrderUpToFirstMissing ==
    /\ fetch.requested = [k \in 1..Len(fetch.requested) |-> k]
    /\ Len(fetch.requested) <= FirstMissing
    /\ ParserInvoked =>
           /\ Len(fetch.requested) = FirstMissing
           /\ parser.args.rawtexts =
                  [k \in 1..(FirstMissing - 1) |-> Answer(k).text]
           /\ parser.args.title = ScanTitle
    /\ (FirstMissing = 1 \/ FailingPages # {}) =>
           /\ ~ParserInvoked
           /\ pc \notin {"et_fetched", "et_returned"}
           /\ ExportTitleEnded => pc = "et_raised"
    /\ (FirstMissing > 1 /\ FailingPages = {} /\ ExportTitleEnded) =>
           ParserInvoked

\* the parser was given the texts of pages 1 and 2 of a wiki that reports
\* page 3 missing
C27_Witness ==
    /\ ParserInvoked
    /\ Len(fetch.wiki) = 3
    /\ FirstMissing = 3
    /\ fetch.requested = <<1, 2, 3>>
    /\ parser.args.rawtexts = <<<<"x">>, <<"2">>>>

(***************************************************************************)
(* TSVConverter.convert                                                    *)
(***************************************************************************)

RECURSIVE SplitAt(_, _)
\* the fields of s between the characters of seps, empty ones included
SplitAt(s, seps) ==
    LET at == {i \in 1..Len(s) : s[i] \in seps}
    IN  IF at = {} THEN <<s>>
        ELSE LET i == CHOOSE i \in at : \A m \in at : i <= m
             IN  <<SubSeq(s, 1, i - 1)>>
                 \o SplitAt(SubSeq(s, i + 1, Len(s)), seps)

\* s.split()
Words(s) == SelectSeq(SplitAt(s, Whitespace), LAMBDA f : f # <<>>)

\* _tokenizerWrapper(plain_text): [{'sentence': str, 'tokens': [str, ...]}],
\* the sentences split from the text and the tokens of each sentence; the
\* tokenizer process is taken to end a sentence at a newline and a token at
\* a space
TokenizerWrapper(plain_text) ==
    LET sentences == SelectSeq(SplitAt(plain_text, {NL}),
                               LAMBDA l : Words(l) # <<>>)
    IN  [k \in 1..Len(sentences) |->
           [sentence |-> sentences[k], tokens |-> Words(sentences[k])]]

\* the match of _page_pattern (no spaces after it) at offset p of s
PageTokenAt(s, p) ==
    IF ~StartsWithAt(s, PagekwOutOpen, p) THEN NoMatch
    ELSE LET a == p + Len(PagekwOutOpen)
             b == PageAllowedEnd(s, a)
         IN  IF b = -1 \/ ~StartsWithAt(s, PagekwOutClose, b) THEN NoMatch
             ELSE [start |-> p, end |-> b + Len(PagekwOutClose),
                   info |-> Slice(s, a, b)]

RECURSIVE RemovePageTokens(_)
\* re.sub(_page_pattern, '', s)
RemovePageTokens(s) ==
    LET starts == {q \in 0..(Len(s) - 1) : PageTokenAt(s, q) # NoMatch}
    IN  IF starts = {} THEN s
        ELSE LET q == CHOOSE q \in starts : \A r \in starts : q <= r
             IN  Slice(s, 0, q)
                 \o RemovePageTokens(SliceFrom(s, PageTokenAt(s, q).end))

\* re.match('^%s$' % _page_pattern, token)
IsPageToken(token) ==
    /\ PageTokenAt(token, 0) # NoMatch
    /\ PageTokenAt(token, 0).end = Len(token)

\* '%s' % v
PyStr(v) == IF v = None THEN <<"N", "o", "n", "e">> ELSE v

RECURSIVE Dec(_)
\* '%d' % n, n >= 0
Dec(n) ==
    LET digit(d) == <<"0", "1", "2", "3", "4", "5", "6", "7", "8", "9">>[d + 1]
    IN  IF n < 10 THEN <<digit(n)>> ELSE Append(Dec(n \div 10), digit(n % 10))

\* re.sub('\t+', '\t', s): of every run of tabs the first stays
CollapseTabs(s) ==
    LET kept == {i \in 1..Len(s) : ~(s[i] = TAB /\ i > 1 /\ s[i - 1] = TAB)}
        nth(k) == CHOOSE i \in kept : Cardinality({j \in kept : j <= i}) = k
    IN  [k \in 1..Cardinality(kept) |-> s[nth(k)]]

\* '%d-%d\t%s\t%s\t%s' % (...), lines 301-302
Entry(cnt_sentence, cnt_token, token, sectioninfo, pageinfo) ==
    Dec(cnt_sentence) \o <<"-">> \o Dec(cnt_token) \o <<TAB>> \o token
    \o <<TAB>> \o sectioninfo \o <<TAB>> \o pageinfo

ConvertError(what) == [type |-> "ValueError", what |-> what]

\* convert() is called: lines 209-213
ConvertBegin ==
    /\ pc = "tc_new"
    /\ tsv' = [tsv EXCEPT !.out = <<>>, !.cnt_sentence = 0,
                          !.pageinfo = <<>>, !.sectioninfo = <<>>,
                          !.newpage = FALSE, !.ci = 1]
    /\ pc' = "tc_chunk"
    /\ UNCHANGED <<exc, fetch>>
    /\ UNCHANGED <<obVars, wpVars, firstpass, ehVars>>

\* for chunk in self.content: lines 215-228
ConvertChunk ==
    /\ pc = "tc_chunk"
    /\ tsv.ci <= Len(tsv.content)
    /\ LET chunk == tsv.content[tsv.ci]
       IN  tsv' = [tsv EXCEPT
                     !.newsection = TRUE,
                     !.section = chunk.section,
                     !.sectioninfo = IF Truthy(chunk.section)
                                     THEN <<"B", "-">> \o PyStr(chunk.section)
                                     ELSE @,
                     !.items = TokenizerWrapper(chunk.text)]
    /\ pc' = "tc_item"
    /\ UNCHANGED <<exc, fetch>>
    /\ UNCHANGED <<obVars, wpVars, firstpass, ehVars>>

\* for item in tokenized: lines 230-245, up to the first token
ConvertItem ==
    /\ pc = "tc_item"
    /\ tsv.items # <<>>
    /\ LET item == Head(tsv.items)
           cleantxt == RemovePageTokens(item.sentence)
           n == tsv.cnt_sentence + 1
       IN  IF ContainsSeq(cleantxt, PagekwOutOpen)
           THEN /\ tsv' = [tsv EXCEPT !.cnt_sentence = n]
                /\ exc' = ConvertError("Bad format for page info")
                /\ pc' = "tc_raised"
           ELSE /\ tsv' = [tsv EXCEPT
                             !.cnt_sentence = n,
                             !.out = @ \o <<<<NL, "#id=">> \o Dec(n),
                                            <<"#text=">> \o cleantxt>>,
                             !.cnt_token = 0,
                             !.tokens = item.tokens,
                             !.items = Tail(@)]
                /\ pc' = "tc_token"
                /\ UNCHANGED exc
    /\ UNCHANGED fetch
    /\ UNCHANGED <<obVars, wpVars, firstpass, ehVars>>

\* for token in tokens: lines 246-304 (the checks of lines 252-270 only
\* print warnings)
ConvertToken ==
    /\ pc = "tc_token"
    /\ tsv.tokens # <<>>
    /\ LET token == Head(tsv.tokens)
       IN  IF ContainsSeq(token, PagekwOutOpen)
           THEN IF ~IsPageToken(token)
                THEN /\ exc' = ConvertError("Page information not well formated")
                     /\ pc' = "tc_raised"
                     /\ UNCHANGED tsv
                ELSE /\ tsv' = [tsv EXCEPT
                                  !.pageinfo = <<"B", "-">>
                                               \o PageTokenAt(token, 0).info,
                                  !.newpage = TRUE,
                                  !.tokens = Tail(@)]
                     /\ UNCHANGED <<pc, exc>>
           ELSE LET cnt_token == tsv.cnt_token + 1
                    sectioninfo == IF tsv.sectioninfo # <<>> /\ ~tsv.newsection
                                   THEN <<"I", "-">> \o PyStr(tsv.section)
                                   ELSE tsv.sectioninfo
                    pageinfo == IF tsv.pageinfo # <<>> /\ ~tsv.newpage
                                THEN <<"I">> \o Tail(tsv.pageinfo)
                                ELSE tsv.pageinfo
                    entry == Entry(tsv.cnt_sentence, cnt_token, token,
                                   sectioninfo, pageinfo)
                IN  /\ tsv' = [tsv EXCEPT
                                 !.cnt_token = cnt_token,
                                 !.sectioninfo = sectioninfo,
                                 !.pageinfo = pageinfo,
                                 !.newpage = FALSE,
                                 !.newsection = FALSE,
                                 !.out = Append(@, CollapseTabs(entry)),
                                 !.tokens = Tail(@)]
                    /\ UNCHANGED <<pc, exc>>
    /\ UNCHANGED fetch
    /\ UNCHANGED <<obVars, wpVars, firstpass, ehVars>>

\* after the last token of a sentence
ConvertItemEnd ==
    /\ pc = "tc_token"
    /\ tsv.tokens = <<>>
    /\ pc' = "tc_item"
    /\ UNCHANGED <<tsv, exc, fetch>>
    /\ UNCHANGED <<obVars, wpVars, firstpass, ehVars>>

\* after the last sentence of a chunk
ConvertChunkEnd ==
    /\ pc = "tc_item"
    /\ tsv.items = <<>>
    /\ tsv' = [tsv EXCEPT !.ci = @ + 1]
    /\ pc' = "tc_chunk"
    /\ UNCHANGED <<exc, fetch>>
    /\ UNCHANGED <<obVars, wpVars, firstpass, ehVars>>

\* after the last chunk: the header, lines 306-317
ConvertReturn ==
    /\ pc = "tc_chunk"
    /\ tsv.ci > Len(tsv.content)
    /\ LET header ==
               (IF tsv.sectioninfo # <<>>
                THEN <<" # webanno.custom.", "section label", " | ",
                       "section feature">>
                ELSE <<>>)
               \o (IF tsv.pageinfo # <<>>
                   THEN <<" # webanno.custom.", "page label", " | ",
                          "page feature">>
                   ELSE <<>>)
           out == <<header>> \o tsv.out
       IN  tsv' = [tsv EXCEPT !.out = out, !.ret = JoinWith(<<NL>>, out)]
    /\ pc' = "tc_returned"
    /\ UNCHANGED <<exc, fetch>>
    /\ UNCHANGED <<obVars, wpVars, firstpass, ehVars>>

\* pieces of text in the whole content
MaxTsvPieces == 4

TsvPieces == {<<"w">>, Marker1, MalformedMarker, <<SP>>, <<NL>>}

\* TSVConverter(data): self.content is a sequence of at most MaxChunks
\* chunks made of at most MaxTsvPieces of the pieces together
InitConvert ==
    /\ \E c \in 1..MaxChunks :
         \E ps \in PieceSeqs(TsvPieces, MaxTsvPieces) :
           \E secs \in [1..c -> SectionNames] :
             \E cuts \in Cuts(c, Len(ps)) :
               tsv = [NoTsv EXCEPT !.content = ChunkSeq(ps, secs, cuts)]
    /\ FetchIdle
    /\ ExportIdle
    /\ OBIdle
    /\ WPIdle
    /\ firstpass = NoFirstPass
    /\ pc = "tc_new"
    /\ exc = NoExc

NextConvert ==
    \/ ConvertBegin
    \/ ConvertChunk
    \/ ConvertItem
    \/ ConvertToken
    \/ ConvertItemEnd
    \/ ConvertChunkEnd
    \/ ConvertReturn

SpecConvert == InitConvert /\ [][NextConvert]_vars

\* the tokens of the k-th chunk that get a row: those that hold no page
\* keyword
RowTokens(k) ==
    LET tokenized == TokenizerWrapper(tsv.content[k].text)
        tokens == Concat([n \in 1..Len(tokenized) |-> tokenized[n].tokens])
    IN  SelectSeq(tokens, LAMBDA t : ~ContainsSeq(t, PagekwOutOpen))

\* for every token row of the document, in order: the chunk of its token
\* and whether it is the first row of that chunk
RowOwners ==
    Concat([k \in 1..Len(tsv.content) |->
              [m \in 1..Len(RowTokens(k)) |-> [chunk |-> k, first |-> m = 1]]])

\* the token rows written so far
TokenRows == SelectSeq(tsv.out, LAMBDA line : Contains(line, TAB))

\* the columns of a row
Columns(row) == SplitAt(row, {TAB})

\* the section tags that the sections of the chunks and the null value give
SectionTags ==
    {<<p, "-">> \o PyStr(tsv.content[k].section) :
        p \in {"B", "I"}, k \in 1..Len(tsv.content)}
    \cup {<<p, "-">> \o PyStr(None) : p \in {"B", "I"}}

\* C28: the section tag of a token row is that of the chunk of its token:
\* B-<section> on the first row of a chunk with a section, I-<section> on
\* its later rows, and a row of a chunk whose section is null carries no
\* section tag, neither of another chunk nor one built from the null value
C28_SectionTagOfOwnChunk ==
    \A j \in 1..Len(TokenRows) :
        /\ j <= Len(RowOwners)
        /\ LET owner == RowOwners[j]
               chunk == tsv.content[owner.chunk]
               cols == Columns(TokenRows[j])
           IN  IF HasSection(chunk)
               THEN /\ Len(cols) >= 3
                    /\ cols[3] = <<IF owner.first THEN "B" ELSE "I", "-">>
                                 \o chunk.section
               ELSE \A c \in 3..Len(cols) : cols[c] \notin SectionTags

====
